---- MODULE Spec2Model ----
(***************************************************************************)
(* Model of the grading core of GL4U_testing/rnaseq_grader.py.             *)
(*                                                                         *)
(* Text is modelled at character level: a Python str is a sequence of      *)
(* one-character strings, a notebook cell is a record whose fields may be  *)
(* missing (cell.get(k, default)), a dict is a function, None is the empty *)
(* sequence and a JSON number n that may also be null (execution_count) is *)
(* the one-element sequence <<n>>.                                         *)
(***************************************************************************)
EXTENDS Integers, Sequences, FiniteSets, TLC

VARIABLES
    pc,                        \* the position of the running call
    cell,                      \* has_content: its argument
    completed,                 \* has_content: its return value
    notebook_file,             \* the content of the file at notebook_path
    expected_config,           \* the rubric the notebook is graded against
    idx,                       \* the 0-based index of the next cell of the scan
    current_section,
    current_subsection,
    section_completed_code,
    section_cell_counts_code,
    section_completed_raw,
    section_cell_counts_raw,
    section_completed,
    section_cell_counts,
    code_cells_completed,
    results,                   \* the dict the grading call builds and returns
    graded,                    \* main: the gradings done so far, in order
    asset_pos,                 \* main: the position of the loop over the notebook assets
    screenshots_completed,
    screenshots_missing,
    activity_results,
    student_output,            \* main: the lines of the student's grades file
    student_summaries,         \* main: student_summaries[student_id]
    csv_rows                   \* main: the rows of the summary table after the header

hcVars == <<cell, completed>>

inputVars == <<notebook_file, expected_config>>

enhancedVars == <<current_subsection, section_completed_code, section_cell_counts_code,
                  section_completed_raw, section_cell_counts_raw>>

specialVars == <<section_completed, section_cell_counts, code_cells_completed>>

reportVars == <<asset_pos, screenshots_completed, screenshots_missing, activity_results,
                student_output, student_summaries, csv_rows>>

vars == <<pc, cell, completed, notebook_file, expected_config, idx, current_section,
          current_subsection, section_completed_code, section_cell_counts_code,
          section_completed_raw, section_cell_counts_raw, section_completed,
          section_cell_counts, code_cells_completed, results, graded, asset_pos,
          screenshots_completed, screenshots_missing, activity_results, student_output,
          student_summaries, csv_rows>>

(***************************************************************************)
(* Python str primitives                                                   *)
(***************************************************************************)

\* The characters str.strip() removes and the regex class \s matches.
Whitespace == {" ", "\n", "\t", "\r"}

\* The regex class \d.
Digits == {"0", "1", "2", "3", "4", "5", "6", "7", "8", "9"}

\* The regex class [a-z].
LowerLetters == {"a", "b", "c", "d", "e", "f", "g", "h", "i", "j", "k", "l", "m",
                 "n", "o", "p", "q", "r", "s", "t", "u", "v", "w", "x", "y", "z"}

None == <<>>

SetMin(S) == CHOOSE x \in S : \A y \in S : x <= y

SetMax(S) == CHOOSE x \in S : \A y \in S : x >= y

Min2(a, b) == IF a <= b THEN a ELSE b

\* "".join(parts): the concatenation of a list of strings.
RECURSIVE join(_)
join(parts) == IF parts = <<>> THEN <<>> ELSE Head(parts) \o join(Tail(parts))

\* The first position j >= i of s that is past the end or holds no character of S
\* (the end of a greedy run of S starting at i).
SkipWhile(s, i, S) ==
    SetMin({j \in i..(Len(s) + 1) : j = Len(s) + 1 \/ s[j] \notin S})

\* The last position j <= i of s that is before the start or holds no character of S.
SkipBack(s, i, S) ==
    SetMax({j \in 0..i : j = 0 \/ s[j] \notin S})

\* str.strip()
strip(s) ==
    LET a == SkipWhile(s, 1, Whitespace)
        b == SkipBack(s, Len(s), Whitespace)
    IN  IF a > b THEN <<>> ELSE SubSeq(s, a, b)

\* str.startswith(prefix)
startswith(s, prefix) ==
    Len(s) >= Len(prefix) /\ SubSeq(s, 1, Len(prefix)) = prefix

\* str.find(ch) for a one-character needle: 0-based index of the first
\* occurrence, -1 when there is none.
find(s, ch) ==
    LET hits == {j \in 1..Len(s) : s[j] = ch}
    IN  IF hits = {} THEN -1 ELSE SetMin(hits) - 1

\* needle in s  (substring test)
contains(s, needle) ==
    \E j \in 1..(Len(s) - Len(needle) + 1) : SubSeq(s, j, j + Len(needle) - 1) = needle

\* s[k:] for a 0-based k
slice_from(s, k) == SubSeq(s, k + 1, Len(s))

\* str.split('\n'): the pieces between newlines (always at least one piece).
RECURSIVE split_lines(_)
split_lines(s) ==
    LET p == find(s, "\n")
    IN  IF p = -1 THEN <<s>>
        ELSE <<SubSeq(s, 1, p)>> \o split_lines(slice_from(s, p + 1))

\* dict.get(key, default) on a record/function
Get(d, key, default) == IF key \in DOMAIN d THEN d[key] ELSE default

\* The sequences of at most n elements of S.
SeqsUpTo(S, n) == UNION {[1..k -> S] : k \in 0..n}

\* An empty dict.
EmptyDict == [k \in {} |-> 0]

\* d with d[key] = value set (dict item assignment).
Put(d, key, value) == (key :> value) @@ d

UpperAlphabet == <<"A", "B", "C", "D", "E", "F", "G", "H", "I", "J", "K", "L", "M",
                   "N", "O", "P", "Q", "R", "S", "T", "U", "V", "W", "X", "Y", "Z">>

LowerAlphabet == <<"a", "b", "c", "d", "e", "f", "g", "h", "i", "j", "k", "l", "m",
                   "n", "o", "p", "q", "r", "s", "t", "u", "v", "w", "x", "y", "z">>

\* str.lower()
lower_char(ch) ==
    IF \E j \in 1..26 : UpperAlphabet[j] = ch
    THEN LowerAlphabet[CHOOSE j \in 1..26 : UpperAlphabet[j] = ch]
    ELSE ch

lower(s) == [j \in 1..Len(s) |-> lower_char(s[j])]

S_Question == <<"Q", "u", "e", "s", "t", "i", "o", "n">>

(***************************************************************************)
(* The header regular expressions                                          *)
(***************************************************************************)

\* The part (\d+...)\.?\s+ of the header patterns, matched at position c of
\* line: the captured group, or None when it does not match. letter says
\* whether the group ends in [a-z] ("one"), in [a-z]? ("optional") or in
\* neither ("none"). Every quantifier is greedy and no shorter choice can
\* match, so the greedy choice is the only one.
header_group(line, c, letter) ==
    LET d == SkipWhile(line, c, Digits)
        has_letter == d <= Len(line) /\ line[d] \in LowerLetters
        g == IF letter # "none" /\ has_letter THEN d + 1 ELSE d
        e == IF g <= Len(line) /\ line[g] = "." THEN g + 1 ELSE g
        f == SkipWhile(line, e, Whitespace)
    IN  IF d > c /\ (letter = "one" => has_letter) /\ f > e
        THEN SubSeq(line, c, g - 1)
        ELSE None

\* re.search(r'^\s*#+\s+(\d+)\.?\s+', line): group 1, or None
re_main(line) ==
    LET a == SkipWhile(line, 1, Whitespace)
        b == SkipWhile(line, a, {"#"})
        c == SkipWhile(line, b, Whitespace)
    IN  IF b > a /\ c > b THEN header_group(line, c, "none") ELSE None

\* re.search(r'^\s*#+\s+(\d+[a-z])\.?\s+', line): group 1, or None
re_sub(line) ==
    LET a == SkipWhile(line, 1, Whitespace)
        b == SkipWhile(line, a, {"#"})
        c == SkipWhile(line, b, Whitespace)
    IN  IF b > a /\ c > b THEN header_group(line, c, "one") ELSE None

\* re.search(r'^\s*###\s+(\d+[a-z])\.?\s+', line): group 1, or None
re_sub3(line) ==
    LET a == SkipWhile(line, 1, Whitespace)
        c == SkipWhile(line, a + 3, Whitespace)
    IN  IF a + 2 <= Len(line) /\ SubSeq(line, a, a + 2) = <<"#", "#", "#">> /\ c > a + 3
        THEN header_group(line, c, "one")
        ELSE None

\* re.match(r'^#+\s*(\d+[a-z]?)\.?\s+', line): group 1, or None
re_simple(line) ==
    LET b == SkipWhile(line, 1, {"#"})
        c == SkipWhile(line, b, Whitespace)
    IN  IF b > 1 THEN header_group(line, c, "optional") ELSE None

\* match.group(1) + "."  (None when there was no match)
section_key(group) == IF group = None THEN None ELSE group \o <<".">>

(***************************************************************************)
(* has_content (lines 487-525)                                             *)
(***************************************************************************)

\* Mutant: the Question rule is tested after the kind rules instead of before.
has_content_kind_first(c) ==
    LET source == strip(join(Get(c, "source", <<>>)))
    IN  IF c["cell_type"] = "code"
        THEN Len(source) > 0 /\ (Len(Get(c, "outputs", <<>>)) > 0
                                 \/ Get(c, "execution_count", None) # None)
        ELSE IF startswith(source, S_Question)
        THEN LET colon_pos == find(source, ":")
             IN  colon_pos # -1 /\ Len(strip(slice_from(source, colon_pos + 1))) > 0
        ELSE c["cell_type"] \in {"markdown", "raw"} /\ Len(source) > 0

\* Mutant: a cell of any kind other than code is completed by non-empty text.
has_content_any_kind(c) ==
    LET source == strip(join(Get(c, "source", <<>>)))
    IN  IF startswith(source, S_Question)
        THEN LET colon_pos == find(source, ":")
             IN  colon_pos # -1 /\ Len(strip(slice_from(source, colon_pos + 1))) > 0
        ELSE IF c["cell_type"] = "code"
        THEN Len(source) > 0 /\ (Len(Get(c, "outputs", <<>>)) > 0
                                 \/ Get(c, "execution_count", None) # None)
        ELSE Len(source) > 0

\* Mutant: a code cell needs an execution marker to count as completed.
has_content_needs_exec(c) ==
    LET source == strip(join(Get(c, "source", <<>>)))
    IN  IF startswith(source, S_Question)
        THEN LET colon_pos == find(source, ":")
             IN  colon_pos # -1 /\ Len(strip(slice_from(source, colon_pos + 1))) > 0
        ELSE IF c["cell_type"] = "code"
        THEN Len(source) > 0 /\ Get(c, "execution_count", None) # None
        ELSE c["cell_type"] \in {"markdown", "raw"} /\ Len(source) > 0

has_content(c) ==
    LET source == strip(join(Get(c, "source", <<>>)))
    IN  IF startswith(source, S_Question)
        THEN LET colon_pos == find(source, ":")
             IN  IF colon_pos # -1
                 THEN LET after_colon == strip(slice_from(source, colon_pos + 1))
                      IN  Len(after_colon) > 0
                 ELSE FALSE
        ELSE IF c["cell_type"] = "code"
        THEN LET outputs == Get(c, "outputs", <<>>)
                 execution_count == Get(c, "execution_count", None)
             IN  Len(source) > 0 /\ (Len(outputs) > 0 \/ execution_count # None)
        ELSE IF c["cell_type"] = "markdown"
        THEN Len(source) > 0
        ELSE IF c["cell_type"] = "raw"
        THEN Len(source) > 0
        ELSE FALSE

(***************************************************************************)
(* The rubric (expected_config) and the notebook document                  *)
(*                                                                         *)
(* expected_config['sections'] is an ordered dict: a sequence of           *)
(* [key, config] records with distinct keys. A section config is a record  *)
(* with the fields code_cells and raw_cells, or with the field points (and *)
(* possibly special); a config that is a plain number n is [int |-> n].    *)
(* A section result that is a plain number n is likewise [int |-> n].      *)
(***************************************************************************)

\* expected_config['sections'].items()
Sections(config) == config["sections"]

\* the keys of expected_config['sections']
SectionKeys(config) == {Sections(config)[j]["key"] : j \in 1..Len(Sections(config))}

\* key in expected_config['sections']
InSections(config, key) == key \in SectionKeys(config)

\* expected_config['sections'][key]
SectionConfig(config, key) ==
    LET j == CHOOSE j \in 1..Len(Sections(config)) : Sections(config)[j]["key"] = key
    IN  Sections(config)[j]["config"]

\* isinstance(expected, dict)
is_dict(expected) == "int" \notin DOMAIN expected

S_02_rnaseq_analysis ==
    <<"0", "2", "-", "r", "n", "a", "s", "e", "q", "_", "a", "n", "a", "l", "y", "s", "i", "s">>

\* Mutant: the document identifier is compared without folding its case.
is_analysis_notebook_case_sensitive(config) ==
    contains(Get(config, "asset_id", <<>>), S_02_rnaseq_analysis)

\* lines 632-633
is_analysis_notebook(config) ==
    LET asset_id == lower(Get(config, "asset_id", <<>>))
    IN  contains(lower(asset_id), S_02_rnaseq_analysis)

\* '<a class="anchor" id="deseq"></a>'
S_anchor ==
    <<"<", "a", " ", "c", "l", "a", "s", "s", "=", "\"", "a", "n", "c", "h", "o", "r", "\"",
      " ", "i", "d", "=", "\"", "d", "e", "s", "e", "q", "\"", ">", "<", "/", "a", ">">>

\* '# 2. DESeq2'
S_deseq_title == <<"#", " ", "2", ".", " ", "D", "E", "S", "e", "q", "2">>

K2 == <<"2", ".">>

(***************************************************************************)
(* grade_notebook_enhanced (lines 609-802)                                 *)
(*                                                                         *)
(* The locals of one scan are handled as a record st with the fields       *)
(* current_section, current_subsection, section_completed_code,            *)
(* section_cell_counts_code, section_completed_raw,                        *)
(* section_cell_counts_raw, missed_indices and raised (an exception left   *)
(* the loop body).                                                         *)
(***************************************************************************)

\* Mutant: every header that makes a key current sets its counters to zero again.
init_tracking_reset(config, st, key) ==
    IF InSections(config, key)
    THEN [st EXCEPT !.section_completed_code = Put(@, key, 0),
                    !.section_cell_counts_code = Put(@, key, 0),
                    !.section_completed_raw = Put(@, key, 0),
                    !.section_cell_counts_raw = Put(@, key, 0),
                    !.missed_indices = Put(@, key, [code |-> <<>>, raw |-> <<>>])]
    ELSE st

\* "Initialize section tracking if needed" (lines 650-658, 699-707, 718-726)
init_tracking(config, st, key) ==
    IF InSections(config, key) /\ key \notin DOMAIN st.section_completed_code
    THEN [st EXCEPT !.section_completed_code = Put(@, key, 0),
                    !.section_cell_counts_code = Put(@, key, 0),
                    !.section_completed_raw = Put(@, key, 0),
                    !.section_cell_counts_raw = Put(@, key, 0),
                    !.missed_indices = Put(@, key, [code |-> <<>>, raw |-> <<>>])]
    ELSE st

\* Mutant: a heading of any depth is tried as a top-level header.
shallow_heading_any_depth(stripped) == startswith(stripped, <<"#">>)

\* line.strip().startswith('#') and not line.strip().startswith('###')  (line 679)
shallow_heading(stripped) ==
    startswith(stripped, <<"#">>) /\ ~startswith(stripped, <<"#", "#", "#">>)

\* The main-section key a line adds to main_sections, or None (lines 666-671, 679-682)
main_section_of(line, analysis) ==
    IF analysis \/ shallow_heading(strip(line))
    THEN section_key(re_main(line))
    ELSE None

\* The subsection key a line adds to subsections, or None (lines 673-676, 684-687)
subsection_of(line, analysis) ==
    IF analysis
    THEN section_key(re_sub(line))
    ELSE IF startswith(strip(line), <<"#", "#", "#">>)
         THEN section_key(re_sub3(line))
         ELSE None

\* seq without its None entries
RECURSIVE drop_none(_)
drop_none(seq) ==
    IF seq = <<>> THEN <<>>
    ELSE (IF Head(seq) = None THEN <<>> ELSE <<Head(seq)>>) \o drop_none(Tail(seq))

\* main_sections: the main-section keys of the lines of a cell, in line order
main_sections_of(lines, analysis) ==
    drop_none([j \in 1..Len(lines) |-> main_section_of(lines[j], analysis)])

\* subsections: the subsection keys of the lines of a cell, in line order
subsections_of(lines, analysis) ==
    drop_none([j \in 1..Len(lines) |-> subsection_of(lines[j], analysis)])

\* The special case for section 2 in an anchor tag (lines 641-658).
track_anchor(config, st, source) ==
    IF contains(source, S_anchor) /\ contains(source, S_deseq_title)
    THEN init_tracking(config, [st EXCEPT !.current_section = K2], K2)
    ELSE st

\* Mutant: the first main section of the cell becomes current.
track_main_first(config, st, main_sections) ==
    IF main_sections # <<>>
    THEN init_tracking(config, [st EXCEPT !.current_section = main_sections[1]],
                       main_sections[1])
    ELSE st

\* The last main section of the cell becomes current (lines 690-707).
track_main(config, st, main_sections) ==
    IF main_sections # <<>>
    THEN init_tracking(config,
                       [st EXCEPT !.current_section = main_sections[Len(main_sections)]],
                       main_sections[Len(main_sections)])
    ELSE st

\* The last subsection of the cell becomes current (lines 709-726).
track_sub(config, st, subsections) ==
    IF subsections # <<>>
    THEN init_tracking(config,
                       [st EXCEPT !.current_subsection = subsections[Len(subsections)]],
                       subsections[Len(subsections)])
    ELSE st

\* Header detection in the lines of a markdown cell (lines 660-726).
track_lines(config, st, lines, analysis) ==
    track_sub(config,
              track_main(config, st, main_sections_of(lines, analysis)),
              subsections_of(lines, analysis))

\* Header detection in a markdown cell with the given source text (lines 638-726).
track_headers(config, st, source) ==
    track_lines(config, track_anchor(config, st, source), split_lines(source),
                is_analysis_notebook(config))

\* Mutant: a subsection's cell is counted for the enclosing section too.
active_sections_both(st) ==
    {k \in {st.current_subsection, st.current_section} : k # None}

\* Mutant: the top-level section is preferred over the subsection.
active_sections_top_first(st) ==
    IF st.current_section # None THEN {st.current_section}
    ELSE IF st.current_subsection # None THEN {st.current_subsection}
    ELSE {}

\* line 730: the section a cell is attributed to, as a set of at most one key
active_sections(st) ==
    IF st.current_subsection # None THEN {st.current_subsection}
    ELSE IF st.current_section # None THEN {st.current_section}
    ELSE {}

\* Mutant: a missed code cell is recorded with its 0-based per-section index.
record_code_zero_based(st, active_section, n, complete) ==
    [st EXCEPT !.section_cell_counts_code[active_section] = n,
               !.section_completed_code[active_section] = IF complete THEN @ + 1 ELSE @,
               !.missed_indices[active_section]["code"] =
                    IF complete THEN @ ELSE Append(@, n - 1)]

\* A counted unit: the n-th code cell of active_section (lines 734-741).
record_code(st, active_section, n, complete) ==
    [st EXCEPT !.section_cell_counts_code[active_section] = n,
               !.section_completed_code[active_section] = IF complete THEN @ + 1 ELSE @,
               !.missed_indices[active_section]["code"] =
                    IF complete THEN @ ELSE Append(@, n)]

\* Mutant: an incomplete raw cell is counted and not listed as missed.
record_raw_unlisted(st, active_section, n, complete) ==
    [st EXCEPT !.section_cell_counts_raw[active_section] = n,
               !.section_completed_raw[active_section] = IF complete THEN @ + 1 ELSE @]

\* A counted unit: the n-th raw cell of active_section (lines 745-752).
record_raw(st, active_section, n, complete) ==
    [st EXCEPT !.section_cell_counts_raw[active_section] = n,
               !.section_completed_raw[active_section] = IF complete THEN @ + 1 ELSE @,
               !.missed_indices[active_section]["raw"] =
                    IF complete THEN @ ELSE Append(@, n)]

\* Counting one code or raw cell for active_section (lines 733-752); a key
\* without counters raises KeyError.
count_cell(st, active_section, c) ==
    IF active_section \notin DOMAIN st.section_cell_counts_code
    THEN [st EXCEPT !.raised = TRUE]
    ELSE IF c["cell_type"] = "code"
    THEN record_code(st, active_section,
                     st.section_cell_counts_code[active_section] + 1, has_content(c))
    ELSE record_raw(st, active_section,
                    st.section_cell_counts_raw[active_section] + 1, has_content(c))

\* Attribution of a cell to the keys of actives (lines 731-752).
RECURSIVE attribute_cell(_, _, _, _)
attribute_cell(config, st, c, actives) ==
    IF actives = {} THEN st
    ELSE attribute_cell(config,
                        IF InSections(config, CHOOSE a \in actives : TRUE)
                            /\ c["cell_type"] \in {"code", "raw"}
                        THEN count_cell(st, CHOOSE a \in actives : TRUE, c)
                        ELSE st,
                        c, actives \ {CHOOSE a \in actives : TRUE})

\* Attribution of a cell to the active section (lines 728-752).
attribute(config, st, c) == attribute_cell(config, st, c, active_sections(st))

\* One iteration of the loop over the cells (lines 636-752); a cell without
\* 'cell_type' raises KeyError.
enhanced_body(config, st, c) ==
    IF "cell_type" \notin DOMAIN c
    THEN [st EXCEPT !.raised = TRUE]
    ELSE attribute(config,
                   IF c["cell_type"] = "markdown"
                   THEN track_headers(config, st, join(Get(c, "source", <<>>)))
                   ELSE st,
                   c)

\* Mutant: earned counts are not capped by the expected counts.
earned_uncapped(completed_count, expected_count) == completed_count

\* lines 771-772, 797: min(completed, expected)
earned(completed_count, expected_count) == Min2(completed_count, expected_count)

\* Mutant: the section total leaves the raw units out.
section_total_code_only(earned_code, earned_raw) == earned_code

\* line 774: total_earned
section_total(earned_code, earned_raw) == earned_code + earned_raw

\* The entry of results['sections'] for one rubric section (lines 757-800).
section_result(expected, completed_code, completed_raw) ==
    IF is_dict(expected) /\ "code_cells" \in DOMAIN expected
    THEN LET expected_code == Get(expected, "code_cells", 0)
             expected_raw == Get(expected, "raw_cells", 0)
             earned_code == earned(completed_code, expected_code)
             earned_raw == earned(completed_raw, expected_raw)
         IN  [code |-> earned_code,
              raw |-> earned_raw,
              total |-> section_total(earned_code, earned_raw),
              expected_code |-> expected_code,
              expected_raw |-> expected_raw,
              expected_total |-> expected_code + expected_raw]
    ELSE LET points == IF is_dict(expected) THEN Get(expected, "points", 0)
                       ELSE expected["int"]
         IN  [int |-> earned(completed_code, points)]

\* What a section result adds to results['total_points'] (lines 788, 799).
result_points(r) == IF "int" \in DOMAIN r THEN r["int"] ELSE r["total"]

\* The sum of result_points over the first n rubric sections.
RECURSIVE sum_points(_, _, _)
sum_points(config, sections, n) ==
    IF n = 0 THEN 0
    ELSE LET key == Sections(config)[n]["key"]
         IN  sum_points(config, sections, n - 1)
                + (IF key \in DOMAIN sections THEN result_points(sections[key]) ELSE 0)

\* Mutant: a rubric section whose header was never seen gets no entry.
scored_keys_found_only(config, done_code) == SectionKeys(config) \cap DOMAIN done_code

\* The rubric keys the points loop gives an entry (line 756: all of them).
scored_keys(config, done_code) == SectionKeys(config)

\* "Calculate points" (lines 754-802): the sections of the result.
enhanced_sections(config, done_code, done_raw) ==
    [key \in scored_keys(config, done_code) |->
        section_result(SectionConfig(config, key),
                       Get(done_code, key, 0), Get(done_raw, key, 0))]

(***************************************************************************)
(* grade_notebook (lines 567-607) and the steps of the default scan        *)
(***************************************************************************)

\* notebook['cells'] of the parsed file
Cells == notebook_file["json"]["cells"]

\* lines 616-620, 809-813, 886-890
NewResults == [sections |-> EmptyDict, total_points |-> 0, missed_indices |-> EmptyDict]

\* lines 603-607: what the except clause returns
ErrorResults ==
    [sections |-> EmptyDict, total_points |-> 0,
     issues |-> <<"Error processing notebook">>]

\* Mutant: grade_markdown_exercise_01 governs whenever some section names it,
\* wherever that section stands in the rubric.
grading_variant_exercise_first(config) ==
    LET tags == {Sections(config)[j]["config"]["special"] :
                    j \in {i \in 1..Len(Sections(config)) :
                              LET sc == Sections(config)[i]["config"]
                              IN  is_dict(sc) /\ "special" \in DOMAIN sc}}
    IN  IF "markdown_exercise_01" \in tags THEN "markdown_exercise_01"
        ELSE IF "question_answer" \in tags THEN "question_answer"
        ELSE "enhanced"

\* The grading function lines 583-600 choose: the special tag of the first
\* section, in rubric order, whose tag names a variant; "enhanced" otherwise.
\* (grade_markdown_exercise_01 always returns a dict with 'missed_indices', so
\* the test of line 594 never falls through.)
grading_variant(config) ==
    LET tagged == {j \in 1..Len(Sections(config)) :
                     LET sc == Sections(config)[j]["config"]
                     IN  /\ is_dict(sc)
                         /\ "special" \in DOMAIN sc
                         /\ sc["special"] \in {"markdown_exercise_01", "question_answer"}}
    IN  IF tagged = {} THEN "enhanced"
        ELSE Sections(config)[SetMin(tagged)]["config"]["special"]

\* The locals of grade_notebook_enhanced as one record.
EnhancedState ==
    [current_section |-> current_section,
     current_subsection |-> current_subsection,
     section_completed_code |-> section_completed_code,
     section_cell_counts_code |-> section_cell_counts_code,
     section_completed_raw |-> section_completed_raw,
     section_cell_counts_raw |-> section_cell_counts_raw,
     missed_indices |-> results["missed_indices"],
     raised |-> FALSE]

\* Mutant: the completed-unit counters are kept from the previous call, as
\* module-level dicts would be.
FreshLocals_stale_counters ==
    /\ idx' = 0
    /\ current_section' = None
    /\ current_subsection' = None
    /\ section_cell_counts_code' = EmptyDict
    /\ section_cell_counts_raw' = EmptyDict
    /\ section_cell_counts' = EmptyDict
    /\ code_cells_completed' = EmptyDict
    /\ UNCHANGED <<section_completed_code, section_completed_raw, section_completed>>

\* The locals every grading function starts with (lines 614-629, 808-817, 886-894).
FreshLocals ==
    /\ idx' = 0
    /\ current_section' = None
    /\ current_subsection' = None
    /\ section_completed_code' = EmptyDict
    /\ section_cell_counts_code' = EmptyDict
    /\ section_completed_raw' = EmptyDict
    /\ section_cell_counts_raw' = EmptyDict
    /\ section_completed' = EmptyDict
    /\ section_cell_counts' = EmptyDict
    /\ code_cells_completed' = EmptyDict

\* grade_notebook up to the first cell of the scan it chooses: json.load, the
\* choice of the grading function, that function's locals and the evaluation of
\* the list of cells its loop runs over.
grade_notebook ==
    /\ pc = "grade_notebook"
    /\ FreshLocals
    /\ IF ~notebook_file["parsable"]
       THEN /\ results' = ErrorResults
            /\ pc' = "returned"
       ELSE LET variant == grading_variant(expected_config)
                no_cells == "cells" \notin DOMAIN notebook_file["json"]
            IN  IF no_cells /\ variant # "question_answer"
                THEN /\ results' = ErrorResults
                     /\ pc' = "returned"
                ELSE /\ results' = NewResults
                     /\ pc' = variant
    /\ UNCHANGED <<hcVars, inputVars, graded, reportVars>>

\* One iteration of the loop of grade_notebook_enhanced (lines 636-752).
enhanced_cell ==
    /\ pc = "enhanced"
    /\ idx < Len(Cells)
    /\ \E st \in {enhanced_body(expected_config, EnhancedState, Cells[idx + 1])} :
           IF st.raised
           THEN /\ results' = ErrorResults
                /\ pc' = "returned"
                /\ UNCHANGED <<idx, current_section, enhancedVars>>
           ELSE /\ current_section' = st.current_section
                /\ current_subsection' = st.current_subsection
                /\ section_completed_code' = st.section_completed_code
                /\ section_cell_counts_code' = st.section_cell_counts_code
                /\ section_completed_raw' = st.section_completed_raw
                /\ section_cell_counts_raw' = st.section_cell_counts_raw
                /\ results' = [results EXCEPT !.missed_indices = st.missed_indices]
                /\ idx' = idx + 1
                /\ pc' = "enhanced"
    /\ UNCHANGED <<hcVars, inputVars, specialVars, graded, reportVars>>

\* lines 764-766: a split section that was never found gets zero counters
zero_missing(config, d) ==
    [key \in DOMAIN d \cup
             {k \in SectionKeys(config) :
                 LET sc == SectionConfig(config, k)
                 IN  is_dict(sc) /\ "code_cells" \in DOMAIN sc} |->
        Get(d, key, 0)]

\* "Calculate points" and the return of grade_notebook_enhanced (lines 754-802).
enhanced_points ==
    /\ pc = "enhanced"
    /\ idx = Len(Cells)
    /\ \E sections \in {enhanced_sections(expected_config, section_completed_code,
                                            section_completed_raw)} :
           results' = [results EXCEPT
                          !.sections = sections,
                          !.total_points = sum_points(expected_config, sections,
                                                      Len(Sections(expected_config)))]
    /\ section_completed_code' = zero_missing(expected_config, section_completed_code)
    /\ section_completed_raw' = zero_missing(expected_config, section_completed_raw)
    /\ pc' = "returned"
    /\ UNCHANGED <<hcVars, inputVars, specialVars, idx, current_section, current_subsection,
                   section_cell_counts_code, section_cell_counts_raw, graded, reportVars>>

(***************************************************************************)
(* grade_markdown_exercise_01 (lines 804-879) and grade_question_answer    *)
(* (lines 881-943)                                                         *)
(*                                                                         *)
(* The locals of one scan are a record sp with the fields current_section, *)
(* section_completed, section_cell_counts, code_cells_completed,           *)
(* missed_indices and raised.                                              *)
(***************************************************************************)

\* check_text (line 846)
S_check_text ==
    <<"I", "f", " ", "y", "o", "u", " ", "d", "i", "d", " ", "t", "h", "e", " ", "s",
      "t", "e", "p", " ", "a", "b", "o", "v", "e", ",", " ", "y", "o", "u", " ", "s",
      "h", "o", "u", "l", "d", " ", "s", "e", "e", " ", "a", " ", "c", "e", "l", "l",
      " ", "a", "b", "o", "v", "e", " ", "t", "h", "i", "s", " ", "o", "n", "e", " ",
      "w", "i", "t", "h", " ", "r", "e", "n", "d", "e", "r", "e", "d", " ", "t", "e",
      "x", "t", " ", "o", "f", " ", "w", "h", "a", "t", "e", "v", "e", "r", " ", "y",
      "o", "u", " ", "p", "u", "t", " ", "i", "n", ".">>

\* The key of the first line that starts with '#' and, stripped, matches the
\* single-level header pattern; None when no line does (lines 823-834, 903-912:
\* the loop over the lines breaks at the first match).
RECURSIVE first_header(_)
first_header(lines) ==
    IF lines = <<>> THEN None
    ELSE IF startswith(Head(lines), <<"#">>) /\ re_simple(strip(Head(lines))) # None
    THEN section_key(re_simple(strip(Head(lines))))
    ELSE first_header(Tail(lines))

\* A matched header becomes the current section; its counters are created when
\* it has none, whether or not the rubric knows it (lines 827-833).
exercise_header(sp, key) ==
    IF key = None THEN sp
    ELSE IF key \in DOMAIN sp.section_completed
    THEN [sp EXCEPT !.current_section = key]
    ELSE [sp EXCEPT !.current_section = key,
                    !.section_completed = Put(@, key, 0),
                    !.section_cell_counts = Put(@, key, 0),
                    !.code_cells_completed = Put(@, key, 0),
                    !.missed_indices = Put(@, key, <<>>)]

\* Mutant: an incomplete code cell records its position in the section, as the
\* default scan does.
exercise_count_records_position(config, sp, c) ==
    IF sp.current_section # None /\ InSections(config, sp.current_section)
        /\ c["cell_type"] = "code"
    THEN IF has_content(c)
         THEN [sp EXCEPT !.section_cell_counts[sp.current_section] = @ + 1,
                         !.section_completed[sp.current_section] = @ + 1,
                         !.code_cells_completed[sp.current_section] = @ + 1]
         ELSE [sp EXCEPT !.section_cell_counts[sp.current_section] = @ + 1,
                         !.missed_indices[sp.current_section] =
                             Append(@, sp.section_cell_counts[sp.current_section] + 1)]
    ELSE sp

\* Counting a cell for the current section (lines 836-843).
exercise_count(config, sp, c) ==
    IF sp.current_section # None /\ InSections(config, sp.current_section)
        /\ c["cell_type"] = "code"
    THEN IF has_content(c)
         THEN [sp EXCEPT !.section_cell_counts[sp.current_section] = @ + 1,
                         !.section_completed[sp.current_section] = @ + 1,
                         !.code_cells_completed[sp.current_section] = @ + 1]
         ELSE [sp EXCEPT !.section_cell_counts[sp.current_section] = @ + 1,
                         !.missed_indices[sp.current_section] = <<>>]
    ELSE sp

\* One iteration of the first pass (lines 820-843).
exercise_body(config, sp, c) ==
    IF "cell_type" \notin DOMAIN c
    THEN [sp EXCEPT !.raised = TRUE]
    ELSE exercise_count(config,
                        IF c["cell_type"] = "markdown"
                        THEN exercise_header(sp, first_header(split_lines(
                                                    join(Get(c, "source", <<>>)))))
                        ELSE sp,
                        c)

\* Mutant: the last markdown cell that contains check_text is the one checked.
trigger_index_last(cells) ==
    LET hits == {j \in 1..Len(cells) :
                    /\ cells[j]["cell_type"] = "markdown"
                    /\ contains(join(Get(cells[j], "source", <<>>)), S_check_text)}
    IN  IF hits = {} THEN -1 ELSE SetMax(hits) - 1

\* The 0-based index of the first markdown cell that contains check_text, -1
\* when there is none (lines 847-850, 865).
trigger_index(cells) ==
    LET hits == {j \in 1..Len(cells) :
                    /\ cells[j]["cell_type"] = "markdown"
                    /\ contains(join(Get(cells[j], "source", <<>>)), S_check_text)}
    IN  IF hits = {} THEN -1 ELSE SetMin(hits) - 1

\* The check of the cell before the trigger cell (lines 854-864); i is the
\* 0-based index of the trigger cell.
exercise_check(sp, cells, i) ==
    IF i <= 0 THEN sp
    ELSE IF cells[i]["cell_type"] = "markdown" /\ has_content(cells[i])
    THEN IF Get(sp.code_cells_completed, sp.current_section, 0) > 0
         THEN [sp EXCEPT !.section_completed[sp.current_section] = @ + 1]
         ELSE sp
    ELSE [sp EXCEPT !.missed_indices = Put(@, sp.current_section, <<>>)]

\* Mutant: counters are created for the first header of the document only.
question_header_first_only(sp, key) ==
    IF key = None THEN sp
    ELSE IF DOMAIN sp.section_completed # {}
    THEN [sp EXCEPT !.current_section = key]
    ELSE [sp EXCEPT !.current_section = key,
                    !.section_completed = Put(@, key, 0),
                    !.section_cell_counts = Put(@, key, 0),
                    !.missed_indices = Put(@, key, <<>>)]

\* The header of a cell of the question/answer scan: the source is stripped
\* before it is split into lines (lines 899-912).
question_header(sp, key) ==
    IF key = None THEN sp
    ELSE IF key \in DOMAIN sp.section_completed
    THEN [sp EXCEPT !.current_section = key]
    ELSE [sp EXCEPT !.current_section = key,
                    !.section_completed = Put(@, key, 0),
                    !.section_cell_counts = Put(@, key, 0),
                    !.missed_indices = Put(@, key, <<>>)]

\* A question cell of the current section (lines 918-929); n is its 1-based
\* number in the section and colon_pos the index of its first colon.
question_unit(sp, source, n, colon_pos) ==
    IF colon_pos = -1
    THEN [sp EXCEPT !.section_cell_counts[sp.current_section] = n]
    ELSE IF Len(strip(slice_from(source, colon_pos + 1))) > 0
    THEN [sp EXCEPT !.section_cell_counts[sp.current_section] = n,
                    !.section_completed[sp.current_section] = @ + 1]
    ELSE [sp EXCEPT !.section_cell_counts[sp.current_section] = n,
                    !.missed_indices[sp.current_section] = Append(@, n)]

\* Counting a cell for the current section (lines 915-929).
question_count(config, sp, source) ==
    IF sp.current_section # None /\ InSections(config, sp.current_section)
        /\ startswith(source, S_Question)
    THEN question_unit(sp, source, sp.section_cell_counts[sp.current_section] + 1,
                       find(source, ":"))
    ELSE sp

\* Mutant: only markdown cells are question units.
question_body_markdown_only(config, sp, c, source) ==
    IF "cell_type" \notin DOMAIN c
    THEN [sp EXCEPT !.raised = TRUE]
    ELSE IF c["cell_type"] = "markdown"
    THEN question_count(config, question_header(sp, first_header(split_lines(source))),
                        source)
    ELSE sp

\* One iteration of the loop, for a cell with the given stripped source
\* (lines 897-929).
question_body(config, sp, c, source) ==
    IF "cell_type" \notin DOMAIN c
    THEN [sp EXCEPT !.raised = TRUE]
    ELSE question_count(config,
                        IF c["cell_type"] = "markdown"
                        THEN question_header(sp, first_header(split_lines(source)))
                        ELSE sp,
                        source)

\* The entry of results['sections'] for one rubric section (lines 869-876, 933-940).
points_result(expected, completed_count) ==
    [int |-> earned(completed_count,
                    IF is_dict(expected) THEN Get(expected, "points", 0)
                    ELSE expected["int"])]

\* "Calculate points" of the two variants: the sections of the result.
points_sections(config, done) ==
    [key \in SectionKeys(config) |->
        points_result(SectionConfig(config, key), Get(done, key, 0))]

\* The locals of a specialized scan as one record.
SpecialState ==
    [current_section |-> current_section,
     section_completed |-> section_completed,
     section_cell_counts |-> section_cell_counts,
     code_cells_completed |-> code_cells_completed,
     missed_indices |-> results["missed_indices"],
     raised |-> FALSE]

\* The locals and the result after one step of a specialized scan that leaves
\* the locals sp; an exception ends the call in the except clause of
\* grade_notebook.
SpecialStep(sp, next_pc, next_idx) ==
    IF sp.raised
    THEN /\ results' = ErrorResults
         /\ pc' = "returned"
         /\ UNCHANGED <<idx, current_section, specialVars>>
    ELSE /\ current_section' = sp.current_section
         /\ section_completed' = sp.section_completed
         /\ section_cell_counts' = sp.section_cell_counts
         /\ code_cells_completed' = sp.code_cells_completed
         /\ results' = [results EXCEPT !.missed_indices = sp.missed_indices]
         /\ idx' = next_idx
         /\ pc' = next_pc

\* One iteration of the first pass of grade_markdown_exercise_01 (lines 820-843).
exercise_cell ==
    /\ pc = "markdown_exercise_01"
    /\ idx < Len(Cells)
    /\ \E sp \in {exercise_body(expected_config, SpecialState, Cells[idx + 1])} :
           SpecialStep(sp, "markdown_exercise_01", idx + 1)
    /\ UNCHANGED <<hcVars, inputVars, enhancedVars, graded, reportVars>>

\* The second pass of grade_markdown_exercise_01 (lines 845-865).
exercise_second_pass ==
    /\ pc = "markdown_exercise_01"
    /\ idx = Len(Cells)
    /\ \E sp \in {exercise_check(SpecialState, Cells, trigger_index(Cells))} :
           SpecialStep(sp, "exercise_points", idx)
    /\ UNCHANGED <<hcVars, inputVars, enhancedVars, graded, reportVars>>

\* The cells the question/answer scan runs over: notebook.get('cells', []).
QuestionCells == Get(notebook_file["json"], "cells", <<>>)

\* One iteration of the loop of grade_question_answer (lines 897-929).
question_cell ==
    /\ pc = "question_answer"
    /\ idx < Len(QuestionCells)
    /\ \E sp \in {question_body(expected_config, SpecialState, QuestionCells[idx + 1],
                                strip(join(Get(QuestionCells[idx + 1], "source", <<>>))))} :
           SpecialStep(sp, "question_answer", idx + 1)
    /\ UNCHANGED <<hcVars, inputVars, enhancedVars, graded, reportVars>>

\* "Calculate points" and the return of the two variants (lines 867-879, 931-943).
special_points ==
    /\ \/ pc = "exercise_points"
       \/ pc = "question_answer" /\ idx = Len(QuestionCells)
    /\ \E sections \in {points_sections(expected_config, section_completed)} :
           results' = [results EXCEPT
                          !.sections = sections,
                          !.total_points = sum_points(expected_config, sections,
                                                      Len(Sections(expected_config)))]
    /\ pc' = "returned"
    /\ UNCHANGED <<hcVars, inputVars, enhancedVars, specialVars, idx, current_section, graded,
                   reportVars>>

(***************************************************************************)
(* The default path on its own: documents of at most MaxCells cells drawn  *)
(* from DefaultCells, graded against the rubrics of DefaultRubrics         *)
(***************************************************************************)

\* The longest notebook document.
MaxCells == 4

K1 == <<"1", ".">>

K1a == <<"1", "a", ".">>

\* "# 1. Title"
S_h1 == <<"#", " ", "1", ".", " ", "T", "i", "t", "l", "e">>

\* "### 1a. T"
S_h1a == <<"#", "#", "#", " ", "1", "a", ".", " ", "T">>

\* "# 2. T"
S_h2 == <<"#", " ", "2", ".", " ", "T">>

Markdown(text) == [cell_type |-> "markdown", source |-> <<text>>]

\* A code cell with source, an output and no execution marker.
CodeDone ==
    [cell_type |-> "code", source |-> <<<<"x">>>>, outputs |-> <<"stream">>,
     execution_count |-> None]

\* A code cell with empty source and no output.
CodeEmpty ==
    [cell_type |-> "code", source |-> <<>>, outputs |-> <<>>, execution_count |-> None]

RawDone == [cell_type |-> "raw", source |-> <<<<"x">>>>]

RawEmpty == [cell_type |-> "raw", source |-> <<<<" ">>>>]

DefaultCells ==
    {Markdown(S_h1), Markdown(S_h1a), Markdown(S_h2), CodeDone, CodeEmpty, RawDone, RawEmpty}

\* The rubric {"1.": {code_cells: 2, raw_cells: 1}}, without a document identifier.
RubricOne ==
    [sections |-> <<[key |-> K1, config |-> [code_cells |-> 2, raw_cells |-> 1]]>>]

S_processing_id ==
    <<"0", "1", "-", "R", "N", "A", "s", "e", "q", "_", "p", "r", "o", "c", "e", "s", "s",
      "i", "n", "g", ".", "i", "p", "y", "n", "b">>

\* A rubric with a section, its subsection and a following section declared
\* with a plain point value, in the depth-based header dialect.
RubricNested ==
    [asset_id |-> S_processing_id,
     sections |-> <<[key |-> K1, config |-> [code_cells |-> 1, raw_cells |-> 1]],
                    [key |-> K1a, config |-> [code_cells |-> 1, raw_cells |-> 0]],
                    [key |-> K2, config |-> [points |-> 1]]>>]

DefaultRubrics == {RubricOne, RubricNested}

ParsedNotebook(cells) == [parsable |-> TRUE, json |-> [cells |-> cells]]

\* main before its loop over the students (lines 992-1044)
InitReportVars ==
    /\ asset_pos = 1
    /\ screenshots_completed = <<>>
    /\ screenshots_missing = <<>>
    /\ activity_results = EmptyDict
    /\ student_output = <<>>
    /\ student_summaries = [activities |-> EmptyDict, screenshots |-> EmptyDict]
    /\ csv_rows = <<>>

InitLocals ==
    /\ idx = 0
    /\ current_section = None
    /\ current_subsection = None
    /\ section_completed_code = EmptyDict
    /\ section_cell_counts_code = EmptyDict
    /\ section_completed_raw = EmptyDict
    /\ section_cell_counts_raw = EmptyDict
    /\ section_completed = EmptyDict
    /\ section_cell_counts = EmptyDict
    /\ code_cells_completed = EmptyDict
    /\ results = NewResults
    /\ cell = [cell_type |-> "code"]
    /\ completed = FALSE
    /\ graded = <<>>
    /\ InitReportVars

Init ==
    /\ pc = "grade_notebook"
    /\ notebook_file \in {ParsedNotebook(cells) : cells \in SeqsUpTo(DefaultCells, MaxCells)}
    /\ expected_config \in DefaultRubrics
    /\ InitLocals

Next == grade_notebook \/ enhanced_cell \/ enhanced_points

Spec == Init /\ [][Next]_vars

\* The rubric keys declared with a code/raw split.
SplitKeys(config) ==
    {k \in SectionKeys(config) : "code_cells" \in DOMAIN SectionConfig(config, k)}

\* The call returned a grading (not the error result of the except clause).
Graded == pc = "returned" /\ "issues" \notin DOMAIN results

\* C1: capping law: in the result of grade_notebook_enhanced every rubric key
\* with a code/raw split (c, r) has code <= c and raw <= r.
C1_Capping ==
    Graded =>
        \A k \in SplitKeys(expected_config) :
            /\ k \in DOMAIN results["sections"]
            /\ results["sections"][k]["code"] <= SectionConfig(expected_config, k)["code_cells"]
            /\ results["sections"][k]["raw"] <= SectionConfig(expected_config, k)["raw_cells"]

\* More completed code cells were attributed to "1." than the rubric expects,
\* and the result holds the expected count.
C1_Witness ==
    /\ Graded
    /\ expected_config = RubricOne
    /\ section_completed_code[K1] = 3
    /\ results["sections"][K1]["code"] = 2

\* C2 (as stated): once a top-level header "# 2. ..." follows a subsection header
\* "### 1a. ...", the code cells after it are counted for "2.".
C2_AsStated ==
    (/\ pc = "enhanced"
     /\ InSections(expected_config, K2)
     /\ \E i, j \in 1..idx :
            /\ i < j /\ j < idx
            /\ Cells[i] = Markdown(S_h1a)
            /\ Cells[j] = Markdown(S_h2)
            /\ \A m \in (j + 1)..idx : Cells[m]["cell_type"] = "code")
    => /\ K2 \in DOMAIN section_cell_counts_code
       /\ \E j \in 1..idx : /\ Cells[j] = Markdown(S_h2)
                            /\ section_cell_counts_code[K2] >= idx - j

\* The scenario's document: "# 1. Title", code with output, empty code, raw text.
ScenarioCells == <<Markdown(S_h1), CodeDone, CodeEmpty, RawDone>>

\* C5: the rubric {"1.": {code_cells: 2, raw_cells: 1}} and the scenario's
\* document give, for "1.", code 1, raw 1, total 2 of 3, total_points 2 and
\* the second code unit as the only missed unit.
C5_Scenario ==
    (Graded /\ expected_config = RubricOne /\ Cells = ScenarioCells)
    => /\ results["sections"] =
            (K1 :> [code |-> 1, raw |-> 1, total |-> 2,
                    expected_code |-> 2, expected_raw |-> 1, expected_total |-> 3])
       /\ results["total_points"] = 2
       /\ results["missed_indices"] = (K1 :> [code |-> <<2>>, raw |-> <<>>])

\* The scenario's document was graded against the scenario's rubric.
C5_Witness ==
    /\ Graded /\ expected_config = RubricOne /\ Cells = ScenarioCells
    /\ results["total_points"] = 2

\* C8: a document of zero cells gives total_points 0, an entry for every rubric
\* key with nothing earned and the full expected counts, and no missed indices.
C8_ZeroCells ==
    (Graded /\ Cells = <<>>)
    => /\ results["total_points"] = 0
       /\ DOMAIN results["sections"] = SectionKeys(expected_config)
       /\ \A k \in SectionKeys(expected_config) :
            LET sc == SectionConfig(expected_config, k)
                r == results["sections"][k]
            IN  IF "code_cells" \in DOMAIN sc
                THEN r = [code |-> 0, raw |-> 0, total |-> 0,
                          expected_code |-> sc["code_cells"],
                          expected_raw |-> sc["raw_cells"],
                          expected_total |-> sc["code_cells"] + sc["raw_cells"]]
                ELSE r = [int |-> 0]
       /\ results["missed_indices"] = EmptyDict

\* The empty document was graded against the three-section rubric.
C8_Witness ==
    /\ Graded /\ Cells = <<>> /\ expected_config = RubricNested
    /\ DOMAIN results["sections"] = {K1, K1a, K2}

\* The keys whose entry differs between the dicts before and after.
ChangedKeys(before, after) ==
    {k \in DOMAIN before \cup DOMAIN after :
        \/ k \notin DOMAIN before
        \/ k \notin DOMAIN after
        \/ before[k] # after[k]}

\* The keys whose code counters or missed-code list a step changes.
CodeChanged ==
    ChangedKeys(section_cell_counts_code, section_cell_counts_code')
        \cup ChangedKeys(section_completed_code, section_completed_code')
        \cup {k \in DOMAIN results["missed_indices"] \cap DOMAIN results'["missed_indices"] :
                results["missed_indices"][k]["code"] # results'["missed_indices"][k]["code"]}

\* The keys whose raw counters or missed-raw list a step changes.
RawChanged ==
    ChangedKeys(section_cell_counts_raw, section_cell_counts_raw')
        \cup ChangedKeys(section_completed_raw, section_completed_raw')
        \cup {k \in DOMAIN results["missed_indices"] \cap DOMAIN results'["missed_indices"] :
                results["missed_indices"][k]["raw"] # results'["missed_indices"][k]["raw"]}

\* A step of the scan that processes a cell of the given kind.
ScansCell(kind) ==
    /\ pc = "enhanced" /\ pc' = "enhanced" /\ idx' = idx + 1
    /\ Cells[idx + 1]["cell_type"] = kind

\* C9: every code or raw cell changes the counters of at most one section key
\* and only those of its own unit type; when a subsection is current the key
\* is that subsection, never the enclosing top-level section.
C9_OneSection ==
    [][/\ ScansCell("code") =>
            /\ Cardinality(CodeChanged) <= 1
            /\ RawChanged = {}
            /\ current_subsection # None => CodeChanged \subseteq {current_subsection}
       /\ ScansCell("raw") =>
            /\ Cardinality(RawChanged) <= 1
            /\ CodeChanged = {}
            /\ current_subsection # None => RawChanged \subseteq {current_subsection}]_vars

\* A code cell was counted for the subsection "1a." while "1." was the current
\* top-level section, and "1." counted nothing.
C9_Witness ==
    /\ pc = "enhanced"
    /\ current_section = K1 /\ current_subsection = K1a
    /\ expected_config = RubricNested
    /\ section_cell_counts_code[K1a] = 1
    /\ section_cell_counts_code[K1] = 0

\* The sum of f over the finite set S.
RECURSIVE SumOver(_, _)
SumOver(S, f) ==
    IF S = {} THEN 0
    ELSE LET x == CHOOSE x \in S : TRUE IN f[x] + SumOver(S \ {x}, f)

\* C10: for every rubric key with a code/raw split, total = code + raw and
\* expected_total = expected_code + expected_raw (the rubric's counts), and
\* total_points is the sum of the earned totals over all rubric keys.
C10_Totals ==
    Graded =>
        /\ \A k \in SplitKeys(expected_config) :
            LET r == results["sections"][k]
                sc == SectionConfig(expected_config, k)
            IN  /\ r["total"] = r["code"] + r["raw"]
                /\ r["expected_code"] = sc["code_cells"]
                /\ r["expected_raw"] = sc["raw_cells"]
                /\ r["expected_total"] = sc["code_cells"] + sc["raw_cells"]
        /\ results["total_points"] =
            SumOver(SectionKeys(expected_config),
                    [k \in SectionKeys(expected_config) |->
                        LET r == results["sections"][k]
                        IN  IF "total" \in DOMAIN r THEN r["total"] ELSE r["int"]])

\* A section earned a code unit, a section with a plain point value earned
\* its point, and the document earned both.
C10_Witness ==
    /\ Graded /\ expected_config = RubricNested
    /\ results["sections"][K1]["total"] = 1
    /\ results["sections"][K2]["int"] = 1
    /\ results["total_points"] = 2

\* line 730, on the variables: the key the next cell is attributed to, or None.
ActiveKey == IF current_subsection # None THEN current_subsection ELSE current_section

\* The next cell of the scan.
NextCell == Cells[idx + 1]

\* C12: the active section of a code or raw cell is the current subsection if
\* one has been set, else the current top-level section; the cell is counted
\* for that key when the key is in the rubric and is counted nowhere when it is
\* not, even if the current top-level section is in the rubric.
C12_ActiveSection ==
    [][(ScansCell("code") \/ ScansCell("raw")) =>
          IF ActiveKey # None /\ InSections(expected_config, ActiveKey)
          THEN CodeChanged \cup RawChanged = {ActiveKey}
          ELSE CodeChanged \cup RawChanged = {}]_vars

\* A code cell came after "# 1. Title" and "### 1a. T" under a rubric that
\* knows "1." only, and was counted nowhere.
C12_Witness ==
    /\ pc = "enhanced" /\ expected_config = RubricOne
    /\ idx >= 3 /\ Cells[idx]["cell_type"] = "code"
    /\ current_section = K1 /\ current_subsection = K1a
    /\ section_cell_counts_code = (K1 :> 0)

\* C13: a code cell under an active rubric-known key increments the key's
\* total-code count, then increments completed-code if has_content holds, else
\* appends the just-incremented 1-based code index to the key's missed-code
\* list; a raw cell does the same to total-raw, completed-raw and missed-raw.
C13_Counting ==
    [][/\ (ScansCell("code") /\ ActiveKey # None /\ InSections(expected_config, ActiveKey)) =>
            /\ section_cell_counts_code'[ActiveKey] = section_cell_counts_code[ActiveKey] + 1
            /\ IF has_content(NextCell)
               THEN /\ section_completed_code'[ActiveKey] =
                            section_completed_code[ActiveKey] + 1
                    /\ results'["missed_indices"] = results["missed_indices"]
               ELSE /\ section_completed_code' = section_completed_code
                    /\ results'["missed_indices"][ActiveKey]["code"] =
                            Append(results["missed_indices"][ActiveKey]["code"],
                                   section_cell_counts_code'[ActiveKey])
            /\ RawChanged = {}
       /\ (ScansCell("raw") /\ ActiveKey # None /\ InSections(expected_config, ActiveKey)) =>
            /\ section_cell_counts_raw'[ActiveKey] = section_cell_counts_raw[ActiveKey] + 1
            /\ IF has_content(NextCell)
               THEN /\ section_completed_raw'[ActiveKey] =
                            section_completed_raw[ActiveKey] + 1
                    /\ results'["missed_indices"] = results["missed_indices"]
               ELSE /\ section_completed_raw' = section_completed_raw
                    /\ results'["missed_indices"][ActiveKey]["raw"] =
                            Append(results["missed_indices"][ActiveKey]["raw"],
                                   section_cell_counts_raw'[ActiveKey])
            /\ CodeChanged = {}]_vars

\* Under "1." the second of two code cells and the only raw cell were missed.
C13_Witness ==
    /\ pc = "enhanced" /\ idx = 4
    /\ K1 \in DOMAIN section_cell_counts_code
    /\ section_cell_counts_code[K1] = 2 /\ section_completed_code[K1] = 1
    /\ section_cell_counts_raw[K1] = 1 /\ section_completed_raw[K1] = 0
    /\ results["missed_indices"][K1] = [code |-> <<2>>, raw |-> <<1>>]

\* The list is strictly increasing and its entries lie between 1 and total.
MissedPositions(missed, total) ==
    /\ \A j \in 1..Len(missed) : missed[j] \in 1..total
    /\ \A j \in 1..(Len(missed) - 1) : missed[j] < missed[j + 1]

\* C29: after every cell processed by grade_notebook_enhanced, for every
\* initialised section and each unit type, the completed count plus the
\* length of the missed list is the total count, and the missed list is
\* strictly increasing with entries between 1 and the total count.
C29_Balance ==
    pc = "enhanced"
    => \A key \in DOMAIN section_cell_counts_code :
           /\ section_completed_code[key]
                + Len(results["missed_indices"][key]["code"])
                    = section_cell_counts_code[key]
           /\ MissedPositions(results["missed_indices"][key]["code"],
                              section_cell_counts_code[key])
           /\ section_completed_raw[key]
                + Len(results["missed_indices"][key]["raw"])
                    = section_cell_counts_raw[key]
           /\ MissedPositions(results["missed_indices"][key]["raw"],
                              section_cell_counts_raw[key])

\* Of three code cells under "1." the first and the third were missed.
C29_Witness ==
    /\ pc = "enhanced"
    /\ K1 \in DOMAIN section_cell_counts_code
    /\ section_cell_counts_code[K1] = 3
    /\ section_completed_code[K1] = 1
    /\ results["missed_indices"][K1]["code"] = <<1, 3>>

\* C14: for any document the keys of results['sections'] are the rubric keys,
\* and a rubric key whose header was never encountered has nothing earned and
\* its full expected counts.
C14_AllKeys ==
    Graded =>
        /\ DOMAIN results["sections"] = SectionKeys(expected_config)
        /\ \A k \in SectionKeys(expected_config) \ DOMAIN section_cell_counts_code :
            LET sc == SectionConfig(expected_config, k)
                r == results["sections"][k]
            IN  IF "code_cells" \in DOMAIN sc
                THEN r = [code |-> 0, raw |-> 0, total |-> 0,
                          expected_code |-> sc["code_cells"],
                          expected_raw |-> sc["raw_cells"],
                          expected_total |-> sc["code_cells"] + sc["raw_cells"]]
                ELSE r = [int |-> 0]

\* A document earned a unit under "1." and never showed the headers of "1a."
\* and "2.", which are in the result all the same.
C14_Witness ==
    /\ Graded /\ expected_config = RubricNested
    /\ DOMAIN section_cell_counts_code = {K1}
    /\ results["sections"][K1]["total"] = 1
    /\ results["sections"][K1a]["expected_total"] = 1
    /\ K2 \in DOMAIN results["sections"]

\* C16: the counters and missed lists of a key are created, zero and empty, by
\* the first header that makes the key current; a later header with the same
\* key, like any other markdown cell, leaves every existing counter and missed
\* list unchanged.
C16_InitOnce ==
    [][ScansCell("markdown") =>
          /\ \A k \in DOMAIN section_cell_counts_code :
                /\ k \in DOMAIN section_cell_counts_code'
                /\ section_cell_counts_code'[k] = section_cell_counts_code[k]
                /\ section_completed_code'[k] = section_completed_code[k]
                /\ section_cell_counts_raw'[k] = section_cell_counts_raw[k]
                /\ section_completed_raw'[k] = section_completed_raw[k]
                /\ results'["missed_indices"][k] = results["missed_indices"][k]
          /\ \A k \in DOMAIN section_cell_counts_code' \ DOMAIN section_cell_counts_code :
                /\ k \in {current_section', current_subsection'}
                /\ section_cell_counts_code'[k] = 0
                /\ section_completed_code'[k] = 0
                /\ section_cell_counts_raw'[k] = 0
                /\ section_completed_raw'[k] = 0
                /\ results'["missed_indices"][k] = [code |-> <<>>, raw |-> <<>>]]_vars

\* The header "# 1. Title" came a second time after a completed and a missed
\* code cell of "1.", and the counts and the missed list are still there.
C16_Witness ==
    /\ pc = "enhanced" /\ idx = 4
    /\ Cells[1] = Markdown(S_h1) /\ Cells[4] = Markdown(S_h1)
    /\ K1 \in DOMAIN section_cell_counts_code
    /\ section_cell_counts_code[K1] = 2 /\ section_completed_code[K1] = 1
    /\ results["missed_indices"][K1]["code"] = <<2>>

(***************************************************************************)
(* Header detection: documents of at most MaxHeaderCells markdown cells    *)
(* drawn from HeaderCells, with or without a code cell after them, graded  *)
(* in both header dialects                                                 *)
(***************************************************************************)

\* The largest number of markdown cells of a document.
MaxHeaderCells == 2

\* The heading-marker depths of the header cells.
HeaderDepths == 1..4

K1b == <<"1", "b", ".">>

\* The line "#...# <prefix>. T" with depth markers.
Heading(depth, prefix) ==
    [j \in 1..depth |-> "#"] \o <<" ">> \o prefix \o <<".", " ", "T">>

\* A markdown cell whose source is the given lines, each but the last ending
\* in a newline, as notebook files store them.
MultiLine(lines) ==
    [cell_type |-> "markdown",
     source |-> [j \in 1..Len(lines) |->
                    IF j < Len(lines) THEN lines[j] \o <<"\n">> ELSE lines[j]]]

\* "# 1. T", "### 1a. T", "# 2. T", "### 1b. T" in one cell.
CellTopLast ==
    MultiLine(<<Heading(1, <<"1">>), Heading(3, <<"1", "a">>),
                Heading(1, <<"2">>), Heading(3, <<"1", "b">>)>>)

\* "### 1b. T", "# 2. T", "### 1a. T", "# 1. T" in one cell.
CellSubFirst ==
    MultiLine(<<Heading(3, <<"1", "b">>), Heading(1, <<"2">>),
                Heading(3, <<"1", "a">>), Heading(1, <<"1">>)>>)

\* The anchor marker and the fixed title on one line, which no header pattern
\* matches.
AnchorCell == Markdown(S_anchor \o S_deseq_title)

HeaderCells ==
    {Markdown(Heading(d, <<"2">>)) : d \in HeaderDepths}
        \cup {Markdown(Heading(d, <<"1", "a">>)) : d \in HeaderDepths \ {1}}
        \cup {CellTopLast, CellSubFirst, AnchorCell}

\* The documents: markdown cells, then possibly a code cell.
HeaderDocuments ==
    {cells \o tail : cells \in SeqsUpTo(HeaderCells, MaxHeaderCells),
                     tail \in {<<>>, <<CodeDone>>}}

\* "02-RNAseq_analysis.ipynb"
S_analysis_id ==
    <<"0", "2", "-", "R", "N", "A", "s", "e", "q", "_", "a", "n", "a", "l", "y", "s", "i",
      "s", ".", "i", "p", "y", "n", "b">>

\* A rubric in the prefix-shape header dialect.
RubricAnalysis ==
    [asset_id |-> S_analysis_id,
     sections |-> <<[key |-> K1, config |-> [code_cells |-> 0, raw_cells |-> 0]],
                    [key |-> K1a, config |-> [code_cells |-> 1, raw_cells |-> 0]],
                    [key |-> K2, config |-> [code_cells |-> 0, raw_cells |-> 2]]>>]

HeaderRubrics == {RubricAnalysis, RubricNested, RubricOne}

InitHeaders ==
    /\ pc = "grade_notebook"
    /\ notebook_file \in {ParsedNotebook(cells) : cells \in HeaderDocuments}
    /\ expected_config \in HeaderRubrics
    /\ InitLocals

NextHeaders == grade_notebook \/ enhanced_cell \/ enhanced_points

SpecHeaders == InitHeaders /\ [][NextHeaders]_vars

\* The lines of the next cell of the scan.
NextLines == split_lines(join(Get(NextCell, "source", <<>>)))

\* The lines of the next cell that are top-level headers in the rubric's dialect.
TopLines ==
    {j \in 1..Len(NextLines) :
        main_section_of(NextLines[j], is_analysis_notebook(expected_config)) # None}

\* The lines of the next cell that are subsection headers in the rubric's dialect.
SubLines ==
    {j \in 1..Len(NextLines) :
        subsection_of(NextLines[j], is_analysis_notebook(expected_config)) # None}

\* C15: when a markdown cell holds several header lines, the current top-level
\* section becomes the key of the last top-level header line of the cell and
\* the current subsection the key of the last subsection header line, whatever
\* the order of the two kinds of line inside the cell.
C15_LastHeaderWins ==
    [][ScansCell("markdown") =>
          /\ TopLines # {} =>
                current_section' =
                    main_section_of(NextLines[SetMax(TopLines)],
                                    is_analysis_notebook(expected_config))
          /\ SubLines # {} =>
                current_subsection' =
                    subsection_of(NextLines[SetMax(SubLines)],
                                  is_analysis_notebook(expected_config))]_vars

\* The cell "### 1b. T", "# 2. T", "### 1a. T", "# 1. T" was the first of the
\* document and left "1." and "1a." current.
C15_Witness ==
    /\ pc = "enhanced" /\ idx = 1 /\ Cells[1] = CellSubFirst
    /\ current_section = K1 /\ current_subsection = K1a

\* The rubric's document identifier is not the analysis notebook's.
DepthDialect ==
    ~contains(lower(Get(expected_config, "asset_id", <<>>)), S_02_rnaseq_analysis)

\* The last cell scanned is the one-line header of the given depth and prefix.
ScannedHeading(depth, prefix) ==
    pc = "enhanced" /\ idx >= 1 /\ Cells[idx] = Markdown(Heading(depth, prefix))

\* C17 (as stated): in the depth-based dialect a numeric top-level header is
\* recognised at every heading depth.
C17_AsStated ==
    DepthDialect =>
        \A d \in HeaderDepths : ScannedHeading(d, <<"2">>) => current_section = K2

\* The next cell is the one-line header of the given depth and prefix.
ScansHeading(depth, prefix) ==
    ScansCell("markdown") /\ NextCell = Markdown(Heading(depth, prefix))

\* The step recognises no header: the current keys and the counters stay.
NoHeaderSeen ==
    UNCHANGED <<current_section, current_subsection, section_cell_counts_code, results>>

\* The depth-based dialect on one-line headers: top-level at one or two
\* markers, subsection at exactly three.
DepthRule ==
    \A d \in HeaderDepths :
        /\ ScansHeading(d, <<"2">>) =>
              IF d <= 2
              THEN current_section' = K2 /\ UNCHANGED current_subsection
              ELSE NoHeaderSeen
        /\ ScansHeading(d, <<"1", "a">>) =>
              IF d = 3
              THEN current_subsection' = K1a /\ UNCHANGED current_section
              ELSE NoHeaderSeen

\* C17 (amended): in the depth-based dialect a numeric top-level header is
\* recognised at a depth of one or two markers only, and a digit-plus-letter
\* subsection header at a depth of exactly three markers only.
C17_DepthDialect == [][DepthDialect => DepthRule]_vars

\* "### 2. T" was the first cell of a document in the depth-based dialect and
\* made no section current.
C17_Witness ==
    /\ DepthDialect /\ idx = 1 /\ ScannedHeading(3, <<"2">>)
    /\ current_section = None /\ current_subsection = None

\* C18: the dialect follows the rubric's document identifier: iff it contains
\* "02-rnaseq_analysis", whatever the case of its letters, a header of any
\* depth is top-level when its prefix is a bare integer and a subsection when
\* its prefix is an integer and one lowercase letter, never both; otherwise
\* the depth-based dialect is used.
C18_Dialect ==
    [][IF DepthDialect
       THEN DepthRule
       ELSE \A d \in HeaderDepths :
                /\ ScansHeading(d, <<"2">>) =>
                      current_section' = K2 /\ UNCHANGED current_subsection
                /\ ScansHeading(d, <<"1", "a">>) =>
                      current_subsection' = K1a /\ UNCHANGED current_section]_vars

\* Under the identifier "02-RNAseq_analysis.ipynb" the header "#### 1a. T" made
\* "1a." the current subsection and no section current.
C18_Witness ==
    /\ expected_config = RubricAnalysis /\ idx = 1 /\ ScannedHeading(4, <<"1", "a">>)
    /\ current_section = None /\ current_subsection = K1a

\* C19 (as stated): after a markdown cell with the anchor marker and the title
\* "# 2. DESeq2", "2." is the current top-level section, has counters when it
\* is in the rubric, and the code cells that follow are counted for "2.".
C19_AsStated ==
    (/\ pc = "enhanced"
     /\ \E j \in 1..idx :
            /\ Cells[j] = AnchorCell
            /\ \A m \in (j + 1)..idx : Cells[m] = CodeDone)
    => /\ current_section = K2
       /\ InSections(expected_config, K2) =>
            /\ K2 \in DOMAIN section_cell_counts_code
            /\ \E j \in 1..idx : /\ Cells[j] = AnchorCell
                                 /\ section_cell_counts_code[K2] >= idx - j

(***************************************************************************)
(* grade_notebook on valid and invalid files, under the three grading      *)
(* functions                                                               *)
(***************************************************************************)

S_yes == <<"y", "e", "s">>

\* "Question: yes"
S_QuestionYes == S_Question \o <<":", " ">> \o S_yes

\* A code cell that answers a question and has an output.
QuestionCode ==
    [cell_type |-> "code", source |-> <<S_QuestionYes>>, outputs |-> <<"stream">>,
     execution_count |-> <<1>>]

\* A cell without 'cell_type'.
NoKind == [source |-> <<<<"x">>>>]

\* A file that is no JSON.
Unparsable == [parsable |-> FALSE]

\* A JSON object without 'cells'.
NoCellList == [parsable |-> TRUE, json |-> [nbformat |-> 4]]

VariantCells == {Markdown(S_h1), Markdown(S_h1a), QuestionCode, NoKind}

VariantNotebooks ==
    {Unparsable, NoCellList}
        \cup {ParsedNotebook(cells) : cells \in SeqsUpTo(VariantCells, MaxCells)}

\* A rubric graded by grade_markdown_exercise_01.
RubricExercise ==
    [sections |-> <<[key |-> K1,
                     config |-> [points |-> 2, special |-> "markdown_exercise_01"]]>>]

\* A rubric graded by grade_question_answer.
RubricQuestions ==
    [sections |-> <<[key |-> K1,
                     config |-> [points |-> 2, special |-> "question_answer"]]>>]

\* Two tagged sections, the exercise tag first.
RubricExerciseFirst ==
    [sections |-> <<[key |-> K1,
                     config |-> [points |-> 1, special |-> "markdown_exercise_01"]],
                    [key |-> K1a,
                     config |-> [points |-> 1, special |-> "question_answer"]]>>]

\* An untagged section, then two tagged ones, the question tag first.
RubricQuestionsFirst ==
    [sections |-> <<[key |-> K2, config |-> [int |-> 1]],
                    [key |-> K1,
                     config |-> [points |-> 1, special |-> "question_answer"]],
                    [key |-> K1a,
                     config |-> [points |-> 1, special |-> "markdown_exercise_01"]]>>]

VariantRubrics ==
    {RubricOne, RubricNested, RubricExercise, RubricQuestions, RubricExerciseFirst,
     RubricQuestionsFirst}

InitGN ==
    /\ pc = "grade_notebook"
    /\ notebook_file \in VariantNotebooks
    /\ expected_config \in VariantRubrics
    /\ InitLocals

NextGN ==
    \/ grade_notebook
    \/ enhanced_cell
    \/ enhanced_points
    \/ exercise_cell
    \/ exercise_second_pass
    \/ question_cell
    \/ special_points

SpecGN == InitGN /\ [][NextGN]_vars

\* The file is unparsable or structurally invalid: no JSON, no cell list, or a
\* cell without a kind.
InvalidFile ==
    \/ ~notebook_file["parsable"]
    \/ "cells" \notin DOMAIN notebook_file["json"]
    \/ \E j \in 1..Len(Cells) : "cell_type" \notin DOMAIN Cells[j]

\* C7 (as stated): for every unparsable or structurally invalid document, under
\* the default path and both variants, grade_notebook returns empty sections,
\* total_points 0 and a non-empty issues list.
C7_AsStated ==
    (pc = "returned" /\ InvalidFile)
    => /\ results["sections"] = EmptyDict
       /\ results["total_points"] = 0
       /\ "issues" \in DOMAIN results
       /\ Len(results["issues"]) > 0

\* The positions of the rubric sections that carry a 'special' tag.
TaggedSections(config) ==
    {j \in 1..Len(Sections(config)) :
        LET sc == Sections(config)[j]["config"]
        IN  is_dict(sc) /\ "special" \in DOMAIN sc}

\* The grading function whose scan or points loop is running.
RunningVariant ==
    CASE pc = "enhanced" -> "enhanced"
      [] pc \in {"markdown_exercise_01", "exercise_points"} -> "markdown_exercise_01"
      [] pc = "question_answer" -> "question_answer"
      [] OTHER -> "none"

\* C21: grade_notebook runs a specialized variant only when some rubric section
\* carries a 'special' tag, and then the one variant that grades the document,
\* from its first cell to its points, is the one named by the first tagged
\* section in rubric order; a rubric without a tagged section is graded by
\* grade_notebook_enhanced.
C21_Selection ==
    RunningVariant # "none"
    => IF TaggedSections(expected_config) = {}
       THEN RunningVariant = "enhanced"
       ELSE RunningVariant =
                Sections(expected_config)[SetMin(TaggedSections(expected_config))]
                    ["config"]["special"]

\* The question/answer scan has graded a cell under a rubric whose later
\* section names the other variant.
C21_Witness ==
    /\ expected_config = RubricQuestionsFirst
    /\ pc = "question_answer"
    /\ idx >= 1

\* The key is no rubric section, or every one of the dicts has an entry for it.
Initialised(key, dicts) ==
    (key # None /\ InSections(expected_config, key))
    => \A j \in 1..Len(dicts) : key \in DOMAIN dicts[j]

\* C28: in each of the three scans, a key that is current and in the rubric
\* has its counters and its missed list, so counting a cell for it never
\* fails: a call on a valid file never ends in the except clause.
C28_CountersReady ==
    /\ pc = "enhanced"
         => \A key \in {current_section, current_subsection} :
                Initialised(key, <<section_completed_code, section_cell_counts_code,
                                   section_completed_raw, section_cell_counts_raw,
                                   results["missed_indices"]>>)
    /\ pc \in {"markdown_exercise_01", "exercise_points"}
         => Initialised(current_section,
                        <<section_completed, section_cell_counts, code_cells_completed,
                          results["missed_indices"]>>)
    /\ pc = "question_answer"
         => Initialised(current_section,
                        <<section_completed, section_cell_counts,
                          results["missed_indices"]>>)
    /\ (pc = "returned" /\ ~InvalidFile) => "issues" \notin DOMAIN results

\* The default scan has counted a code cell for a subsection of the rubric
\* that became current after its parent section.
C28_Witness ==
    /\ pc = "enhanced"
    /\ current_section = K1
    /\ current_subsection = K1a
    /\ InSections(expected_config, K1a)
    /\ K1a \in DOMAIN section_cell_counts_code
    /\ section_cell_counts_code[K1a] >= 1

(***************************************************************************)
(* grade_markdown_exercise_01 on its own: documents of at most MaxCells    *)
(* cells drawn from ExerciseCells                                          *)
(***************************************************************************)

\* The markdown cell that carries the instructional sentence.
TriggerCell == Markdown(S_check_text)

\* A markdown cell of white space.
MarkdownBlank == Markdown(<<" ">>)

\* A markdown cell with two header lines: "# 2. T" above "# 1. Title".
CellTwoHeaders == MultiLine(<<S_h2, S_h1>>)

ExerciseCells ==
    {Markdown(S_h1), CellTwoHeaders, MarkdownBlank, CodeDone, CodeEmpty, TriggerCell}

ExerciseNotebooks == {ParsedNotebook(cells) : cells \in SeqsUpTo(ExerciseCells, MaxCells)}

\* The exercise rubric with a second section, declared with a plain point value.
RubricExerciseTwo ==
    [sections |-> <<[key |-> K1,
                     config |-> [points |-> 2, special |-> "markdown_exercise_01"]],
                    [key |-> K2, config |-> [int |-> 1]]>>]

ExerciseRubrics == {RubricExercise, RubricExerciseTwo}

InitExercise ==
    /\ pc = "grade_notebook"
    /\ notebook_file \in ExerciseNotebooks
    /\ expected_config \in ExerciseRubrics
    /\ InitLocals

NextExercise ==
    \/ grade_notebook
    \/ exercise_cell
    \/ exercise_second_pass
    \/ special_points

SpecExercise == InitExercise /\ [][NextExercise]_vars

\* The cell is a markdown cell whose text contains the instructional sentence.
HasSentence(c) ==
    /\ c["cell_type"] = "markdown"
    /\ contains(join(Get(c, "source", <<>>)), S_check_text)

\* The section key the header lines of a cell make current, None for a cell
\* that makes none current.
HeaderOf(c) ==
    IF c["cell_type"] = "markdown"
    THEN first_header(split_lines(join(Get(c, "source", <<>>))))
    ELSE None

\* The section that is current for the j-th cell of the document.
SectionAt(j) ==
    LET hs == {m \in 1..j : HeaderOf(Cells[m]) # None}
    IN  IF hs = {} THEN None ELSE HeaderOf(Cells[SetMax(hs)])

\* The conditions of the exercise unit, read off the document: the first cell
\* with the sentence is not the first cell, the cell before it is a complete
\* markdown cell, and the section tracked at the end of the first pass is a
\* rubric section with a completed code cell.
ExerciseDue ==
    \E i \in 2..Len(Cells) :
        /\ HasSentence(Cells[i])
        /\ \A j \in 1..(i - 1) : ~HasSentence(Cells[j])
        /\ Cells[i - 1]["cell_type"] = "markdown"
        /\ has_content(Cells[i - 1])
        /\ InSections(expected_config, current_section)
        /\ \E j \in 1..Len(Cells) :
               /\ Cells[j]["cell_type"] = "code"
               /\ has_content(Cells[j])
               /\ SectionAt(j) = current_section

\* One section's completed count goes up by one and no other count changes.
ExerciseGranted ==
    \E key \in DOMAIN section_completed :
        section_completed' = [section_completed EXCEPT ![key] = @ + 1]

\* C22: the second pass of grade_markdown_exercise_01 adds one unit to a
\* section's completed count if and only if the first cell that holds the
\* instructional sentence is a markdown cell at a position i > 0, cell i-1 is a
\* markdown cell that has_content classifies complete, and a code cell of the
\* tracked section was completed; otherwise it changes no count.
C22_ExerciseUnit ==
    [][exercise_second_pass
       => /\ ExerciseGranted <=> ExerciseDue
          /\ ExerciseGranted \/ section_completed' = section_completed]_vars

\* The second pass has granted the unit: the section has one more completed
\* unit than completed code cells.
C22_Witness ==
    /\ pc = "exercise_points"
    /\ K1 \in DOMAIN section_completed
    /\ section_completed[K1] = code_cells_completed[K1] + 1

RECURSIVE last_header(_)
last_header(lines) ==
    IF lines = <<>> THEN None
    ELSE IF last_header(Tail(lines)) # None THEN last_header(Tail(lines))
    ELSE first_header(<<Head(lines)>>)

\* C24 (as stated): the first pass of grade_markdown_exercise_01 tracks headers
\* as the default path does: after a markdown cell with matching header lines
\* the last of them is the current section, and counters exist only for keys
\* of the rubric.
C24_AsStated ==
    (pc = "markdown_exercise_01" /\ idx >= 1)
    => /\ DOMAIN section_completed \subseteq SectionKeys(expected_config)
       /\ HeaderOf(Cells[idx]) # None
            => current_section =
                   last_header(split_lines(join(Get(Cells[idx], "source", <<>>))))

(***************************************************************************)
(* grade_question_answer on its own: documents of at most MaxCells cells   *)
(* drawn from QuestionPool                                                 *)
(***************************************************************************)

\* A code cell " Question: yes" without output and execution marker.
QuestionBare ==
    [cell_type |-> "code", source |-> <<<<" ">> \o S_QuestionYes>>, outputs |-> <<>>,
     execution_count |-> None]

\* A raw cell "Question: " with nothing but white space after the colon.
QuestionBlank == [cell_type |-> "raw", source |-> <<S_Question \o <<":", " ">>>>]

\* A markdown cell "Question" without a colon.
QuestionNoColon == Markdown(S_Question)

QuestionPool ==
    {Markdown(S_h1), Markdown(S_h2), QuestionCode, QuestionBare, QuestionBlank,
     QuestionNoColon}

QuestionNotebooks == {ParsedNotebook(cells) : cells \in SeqsUpTo(QuestionPool, MaxCells)}

\* The question rubric with a second section, declared with a plain point value.
RubricQuestionsTwo ==
    [sections |-> <<[key |-> K1,
                     config |-> [points |-> 2, special |-> "question_answer"]],
                    [key |-> K2, config |-> [int |-> 1]]>>]

QuestionRubrics == {RubricQuestions, RubricQuestionsTwo}

InitQuestions ==
    /\ pc = "grade_notebook"
    /\ notebook_file \in QuestionNotebooks
    /\ expected_config \in QuestionRubrics
    /\ InitLocals

NextQuestions ==
    \/ grade_notebook
    \/ question_cell
    \/ special_points

SpecQuestions == InitQuestions /\ [][NextQuestions]_vars

\* The trimmed text of the cell the scan is about to process.
QuestionText == strip(join(Get(QuestionCells[idx + 1], "source", <<>>)))

\* The cell about to be processed is a unit: after its headers are tracked the
\* current section is a rubric section, and its trimmed text begins with
\* "Question".
IsUnit ==
    /\ InSections(expected_config, current_section')
    /\ startswith(QuestionText, S_Question)

\* The unit is earned: its text has a colon with something after the first one.
UnitEarned ==
    /\ IsUnit
    /\ \E j \in 1..Len(QuestionText) :
           /\ QuestionText[j] = ":"
           /\ \A m \in 1..(j - 1) : QuestionText[m] # ":"
           /\ j < Len(QuestionText)

\* The declared point value of a rubric section.
DeclaredPoints(key) ==
    LET sc == SectionConfig(expected_config, key)
    IN  IF is_dict(sc) THEN Get(sc, "points", 0) ELSE sc["int"]

\* C25: in grade_question_answer a cell of any kind is a unit of the current
\* rubric section iff its trimmed text begins with "Question", and the unit is
\* earned iff the text after the first colon is non-empty, whatever the cell's
\* outputs and execution marker; each section scores min(earned units,
\* declared points) and total_points is the sum of the section scores.
C25_Questions ==
    [][/\ question_cell =>
            /\ \A key \in DOMAIN section_cell_counts' :
                   section_cell_counts'[key] =
                       Get(section_cell_counts, key, 0)
                           + (IF IsUnit /\ key = current_section' THEN 1 ELSE 0)
            /\ \A key \in DOMAIN section_completed' :
                   section_completed'[key] =
                       Get(section_completed, key, 0)
                           + (IF UnitEarned /\ key = current_section' THEN 1 ELSE 0)
       /\ special_points =>
            /\ results'["sections"] =
                   [key \in SectionKeys(expected_config) |->
                       [int |-> Min2(Get(section_completed, key, 0), DeclaredPoints(key))]]
            /\ results'["total_points"] =
                   SumOver(SectionKeys(expected_config),
                           [key \in SectionKeys(expected_config) |->
                               results'["sections"][key]["int"]])]_vars

\* The call has returned for a document in which section "1." earned its two
\* points from three answered questions, one of them a code cell without
\* output, and left a blank one unearned.
C25_Witness ==
    /\ pc = "returned"
    /\ expected_config = RubricQuestions
    /\ \E j \in 1..Len(QuestionCells) : QuestionCells[j] = QuestionBare
    /\ K1 \in DOMAIN section_completed
    /\ section_completed[K1] = 3
    /\ results["sections"][K1]["int"] = 2
    /\ results["total_points"] = 2

(***************************************************************************)
(* main's loop over the submissions (lines 1047-1058, 1111-1117): each     *)
(* notebook found is graded by grade_notebook and its result is kept       *)
(***************************************************************************)

\* The number of notebooks main grades in one run.
MaxGradings == 3

\* The submitted files: a corrupt one, a valid one, one with a cell without kind.
SubmittedNotebooks ==
    {Unparsable,
     ParsedNotebook(<<Markdown(S_h1), QuestionCode>>),
     ParsedNotebook(<<Markdown(S_h1), QuestionCode, NoKind>>)}

InitMain ==
    /\ pc = "main"
    /\ notebook_file = Unparsable
    /\ expected_config = RubricOne
    /\ InitLocals

\* line 1058: the call of grade_notebook for the next notebook found
main_grade ==
    /\ pc = "main"
    /\ Len(graded) < MaxGradings
    /\ notebook_file' \in SubmittedNotebooks
    /\ expected_config' \in VariantRubrics
    /\ pc' = "grade_notebook"
    /\ UNCHANGED <<hcVars, idx, current_section, enhancedVars, specialVars, results, graded,
                   reportVars>>

\* lines 1111-1117: the result is kept with the notebook it belongs to
main_store ==
    /\ pc = "returned"
    /\ graded' = Append(graded, [notebook |-> notebook_file,
                                 expected |-> expected_config,
                                 results |-> results])
    /\ pc' = "main"
    /\ UNCHANGED <<hcVars, inputVars, idx, current_section, enhancedVars, specialVars,
                   results, reportVars>>

NextMain ==
    \/ main_grade
    \/ main_store
    \/ grade_notebook
    \/ enhanced_cell
    \/ enhanced_points
    \/ exercise_cell
    \/ exercise_second_pass
    \/ question_cell
    \/ special_points

SpecMain == InitMain /\ [][NextMain]_vars

\* Two gradings of the same document against the same rubric gave the same result.
SameInputSameResult ==
    \A i, j \in 1..Len(graded) :
        (graded[i]["notebook"] = graded[j]["notebook"]
            /\ graded[i]["expected"] = graded[j]["expected"])
        => graded[i]["results"] = graded[j]["results"]

\* C6: grading is a pure function of (document, rubric): a document graded
\* again against the same rubric gives the same result whatever was graded in
\* between, and no step of a grading function changes the rubric or the
\* document.
C6_Pure ==
    /\ []SameInputSameResult
    /\ [][pc # "main" => (notebook_file' = notebook_file
                          /\ expected_config' = expected_config)]_vars

\* A valid document was graded, then a corrupt one, then the valid one again
\* against the same rubric, with a result that earned a point.
C6_Witness ==
    /\ Len(graded) = 3
    /\ graded[1]["notebook"] = graded[3]["notebook"]
    /\ graded[1]["expected"] = graded[3]["expected"]
    /\ graded[2]["notebook"] = Unparsable
    /\ "issues" \in DOMAIN graded[2]["results"]
    /\ "issues" \notin DOMAIN graded[3]["results"]
    /\ graded[3]["results"]["total_points"] = 1

(***************************************************************************)
(* has_content on its own: the argument is drawn from HCCells              *)
(***************************************************************************)

\* The longest list of source fragments of a cell given to has_content.
MaxFrags == 4

S_Quest == <<"Q", "u", "e", "s", "t">>

\* The string fragments a cell's source list is made of.
HCFragments == {S_Question, S_Quest, <<":">>, <<" ">>, S_yes}

HCCells ==
    {[cell_type |-> t, source |-> s, outputs |-> o, execution_count |-> e] :
        t \in {"code", "markdown", "raw", "heading"},
        s \in SeqsUpTo(HCFragments, MaxFrags),
        o \in {<<>>, <<"stream">>},
        e \in {None, <<1>>}}
    \cup {[cell_type |-> t] : t \in {"code", "markdown", "raw"}}

InitHC ==
    /\ pc = "has_content"
    /\ cell \in HCCells
    /\ completed = FALSE
    /\ notebook_file = ParsedNotebook(<<>>)
    /\ expected_config = RubricOne
    /\ idx = 0
    /\ current_section = None
    /\ current_subsection = None
    /\ section_completed_code = EmptyDict
    /\ section_cell_counts_code = EmptyDict
    /\ section_completed_raw = EmptyDict
    /\ section_cell_counts_raw = EmptyDict
    /\ section_completed = EmptyDict
    /\ section_cell_counts = EmptyDict
    /\ code_cells_completed = EmptyDict
    /\ results = NewResults
    /\ graded = <<>>
    /\ InitReportVars

call_has_content ==
    /\ pc = "has_content"
    /\ completed' = has_content(cell)
    /\ pc' = "returned"
    /\ UNCHANGED <<cell, inputVars, idx, current_section, enhancedVars, specialVars, results,
                   graded, reportVars>>

NextHC == call_has_content

SpecHC == InitHC /\ [][NextHC]_vars

\* The trimmed, concatenated source text of the cell has_content was given.
CellText == strip(join(Get(cell, "source", <<>>)))

\* C3 (as stated): a code cell with non-empty trimmed source and a non-empty
\* outputs collection is classified complete whatever its source text is.
C3_AsStated ==
    (pc = "returned" /\ cell["cell_type"] = "code" /\ Len(CellText) > 0
        /\ Len(Get(cell, "outputs", <<>>)) > 0)
    => completed

\* C3 (amended): a code cell with non-empty trimmed source that does not begin
\* with "Question" and with a non-empty outputs collection is classified
\* complete, whatever its execution marker is.
C3_OutputsComplete ==
    (pc = "returned" /\ cell["cell_type"] = "code" /\ Len(CellText) > 0
        /\ ~startswith(CellText, S_Question)
        /\ Len(Get(cell, "outputs", <<>>)) > 0)
    => completed

\* A code cell with source and outputs but no execution marker was classified.
C3_Witness ==
    /\ pc = "returned" /\ cell["cell_type"] = "code" /\ Len(CellText) > 0
    /\ ~startswith(CellText, S_Question)
    /\ Len(Get(cell, "outputs", <<>>)) > 0
    /\ Get(cell, "execution_count", None) = None
    /\ completed

S_QuestionColon == S_Question \o <<":">>

\* C4: for a cell of any kind whose trimmed text begins with "Question", the
\* result is complete iff a colon exists and the trimmed text after the first
\* colon is non-empty, whatever the outputs and the execution marker are;
\* "Question: " is incomplete and "Question: yes" is complete.
C4_QuestionRule ==
    (pc = "returned" /\ startswith(CellText, S_Question))
    => /\ completed <=>
            \E k \in 1..Len(CellText) :
                /\ CellText[k] = ":"
                /\ \A j \in 1..(k - 1) : CellText[j] # ":"
                /\ \E j \in (k + 1)..Len(CellText) : CellText[j] \notin Whitespace
       /\ CellText = S_QuestionColon => ~completed
       /\ CellText = S_QuestionYes => completed

\* A code cell "Question: " with outputs and an execution marker was classified
\* incomplete (the source list ends in a blank, which the trim removes).
C4_Witness ==
    /\ pc = "returned" /\ cell["cell_type"] = "code"
    /\ join(Get(cell, "source", <<>>)) = S_QuestionColon \o <<" ">>
    /\ Len(Get(cell, "outputs", <<>>)) > 0
    /\ Get(cell, "execution_count", None) # None
    /\ ~completed

\* C20: for a cell whose trimmed source does not begin with "Question": a code
\* cell is complete iff the trimmed source is non-empty and the outputs are
\* non-empty or the execution marker is not absent; a markdown or raw cell is
\* complete iff the trimmed source is non-empty; a cell of any other kind is
\* incomplete.
C20_KindRules ==
    (pc = "returned" /\ ~startswith(CellText, S_Question))
    => (completed <=>
            CASE cell["cell_type"] = "code" ->
                    /\ Len(CellText) > 0
                    /\ \/ Len(Get(cell, "outputs", <<>>)) > 0
                       \/ Get(cell, "execution_count", None) # None
              [] cell["cell_type"] \in {"markdown", "raw"} -> Len(CellText) > 0
              [] OTHER -> FALSE)

\* A code cell with text, an execution marker and no output was classified
\* complete.
C20_Witness ==
    /\ pc = "returned" /\ cell["cell_type"] = "code"
    /\ ~startswith(CellText, S_Question) /\ Len(CellText) > 0
    /\ Get(cell, "outputs", <<>>) = <<>>
    /\ Get(cell, "execution_count", None) # None
    /\ completed

(***************************************************************************)
(* CONFIG (lines 36-390) and main's pass over one student directory        *)
(* (lines 1001-1295), followed by the student's row of the summary table   *)
(* (lines 1304-1371). The display names of the sections, the student's     *)
(* name and id and the widths the lines are padded to are left out; a run  *)
(* without --verbose is modelled.                                          *)
(***************************************************************************)

\* A section of CONFIG: its key and its code/raw counts.
Sec(key, code_cells, raw_cells) ==
    [key |-> key, config |-> [code_cells |-> code_cells, raw_cells |-> raw_cells]]

\* CONFIG['assets'][a]['expected']['sections'] for HANDS-ON_ACTIVITY_1 (lines
\* 45-151) and HANDS-ON_ACTIVITY_2 (lines 160-266), which declare the same
\* keys and counts.
ProcessingSections ==
    <<Sec(<<"0", ".">>, 5, 2), Sec(<<"1", ".">>, 0, 0), Sec(<<"1", "a", ".">>, 4, 0),
      Sec(<<"1", "b", ".">>, 2, 4), Sec(<<"2", ".">>, 0, 0), Sec(<<"2", "a", ".">>, 4, 10),
      Sec(<<"2", "b", ".">>, 2, 0), Sec(<<"2", "c", ".">>, 2, 5), Sec(<<"3", ".">>, 0, 0),
      Sec(<<"4", ".">>, 0, 0), Sec(<<"4", "a", ".">>, 2, 9), Sec(<<"4", "b", ".">>, 2, 2),
      Sec(<<"4", "c", ".">>, 2, 0), Sec(<<"5", ".">>, 0, 0), Sec(<<"6", ".">>, 0, 0),
      Sec(<<"6", "a", ".">>, 3, 5), Sec(<<"6", "b", ".">>, 2, 2), Sec(<<"7", ".">>, 0, 0),
      Sec(<<"8", ".">>, 0, 0), Sec(<<"8", "a", ".">>, 2, 6), Sec(<<"8", "b", ".">>, 2, 2)>>

\* CONFIG['assets']['HANDS-ON_ACTIVITY_3']['expected']['sections'] (lines 275-371)
AnalysisSections ==
    <<Sec(<<"0", ".">>, 4, 0), Sec(<<"1", ".">>, 0, 0), Sec(<<"1", "a", ".">>, 3, 0),
      Sec(<<"1", "b", ".">>, 8, 2), Sec(<<"1", "c", ".">>, 6, 3), Sec(<<"2", ".">>, 0, 2),
      Sec(<<"2", "a", ".">>, 6, 3), Sec(<<"2", "b", ".">>, 1, 0),
      Sec(<<"2", "c", ".">>, 2, 2), Sec(<<"2", "d", ".">>, 6, 5), Sec(<<"3", ".">>, 0, 0),
      Sec(<<"3", "a", ".">>, 9, 4), Sec(<<"3", "b", ".">>, 16, 7), Sec(<<"4", ".">>, 0, 0),
      Sec(<<"4", "a", ".">>, 2, 2), Sec(<<"4", "b", ".">>, 5, 1),
      Sec(<<"4", "c", ".">>, 3, 5), Sec(<<"4", "d", ".">>, 14, 6), Sec(<<"5", ".">>, 0, 0)>>

\* "01-RNAseq_processing-2.ipynb"
S_processing_2_id ==
    <<"0", "1", "-", "R", "N", "A", "s", "e", "q", "_", "p", "r", "o", "c", "e", "s", "s",
      "i", "n", "g", "-", "2", ".", "i", "p", "y", "n", "b">>

\* The notebook assets of CONFIG['assets'], in the order of the dict.
NotebookAssets == <<"HANDS-ON_ACTIVITY_1", "HANDS-ON_ACTIVITY_2", "HANDS-ON_ACTIVITY_3">>

\* asset_config['expected'] of the notebook assets.
Expected ==
    [a \in {"HANDS-ON_ACTIVITY_1", "HANDS-ON_ACTIVITY_2", "HANDS-ON_ACTIVITY_3"} |->
        CASE a = "HANDS-ON_ACTIVITY_1" ->
                [asset_id |-> S_processing_id, total_cells |-> 34,
                 sections |-> ProcessingSections]
          [] a = "HANDS-ON_ACTIVITY_2" ->
                [asset_id |-> S_processing_2_id, total_cells |-> 34,
                 sections |-> ProcessingSections]
          [] a = "HANDS-ON_ACTIVITY_3" ->
                [asset_id |-> S_analysis_id, total_cells |-> 125,
                 sections |-> AnalysisSections]]

\* The screenshot assets of CONFIG['assets'], in the order of the dict, with
\* their 'required' flag (lines 374-388).
ScreenshotAssets ==
    <<[id |-> "GL4U_RNAseq_On-Demand_Pre-Course_Survey", required |-> TRUE],
      [id |-> "GL4U_RNAseq_On-Demand_Post-Course_Survey", required |-> FALSE],
      [id |-> "Verify_Completion_of_GL4U", required |-> TRUE]>>

\* The positions of ScreenshotAssets in the order of sorted(config['assets'].keys())
\* (line 1167): "...Post-Course..." < "...Pre-Course..." < "Verify...".
SortedScreenshots == <<2, 1, 3>>

\* activity_sections (lines 1081-1084)
activity_sections ==
    [a \in {"HANDS-ON_ACTIVITY_1", "HANDS-ON_ACTIVITY_2"} |->
        IF a = "HANDS-ON_ACTIVITY_1"
        THEN
        <<<<"0", ".">>, <<"1", ".">>, <<"1", "a", ".">>, <<"1", "b", ".">>, <<"2", ".">>,
          <<"2", "a", ".">>, <<"2", "b", ".">>, <<"2", "c", ".">>>>
        ELSE
        <<<<"3", ".">>, <<"4", ".">>, <<"4", "a", ".">>, <<"4", "b", ".">>, <<"4", "c", ".">>,
          <<"5", ".">>, <<"6", ".">>, <<"6", "a", ".">>, <<"6", "b", ".">>, <<"7", ".">>,
          <<"8", ".">>, <<"8", "a", ".">>, <<"8", "b", ".">>>>]

\* The points a rubric section is worth (lines 1103-1109, 1127-1132, 1198-1204).
section_points(section_config) ==
    IF is_dict(section_config) /\ "code_cells" \in DOMAIN section_config
    THEN Get(section_config, "code_cells", 0) + Get(section_config, "raw_cells", 0)
    ELSE IF is_dict(section_config) /\ "points" \in DOMAIN section_config
    THEN section_config["points"]
    ELSE section_config["int"]

\* The points of the first n sections of a rubric.
RECURSIVE expected_points(_, _)
expected_points(sections, n) ==
    IF n = 0 THEN 0
    ELSE expected_points(sections, n - 1) + section_points(sections[n]["config"])

\* total_expected_for_notebook (lines 1123-1132): the points of all sections
total_expected_for_notebook(expected) ==
    expected_points(Sections(expected), Len(Sections(expected)))

\* filtered_sections (line 1087)
filtered_sections(asset_id, expected) ==
    IF asset_id \in DOMAIN activity_sections
    THEN activity_sections[asset_id]
    ELSE [j \in 1..Len(Sections(expected)) |-> Sections(expected)[j]["key"]]

\* What a section of the result adds to filtered_results_total (lines 1095-1100).
filtered_score(sections, section_id) ==
    IF section_id \in DOMAIN sections
    THEN IF is_dict(sections[section_id]) /\ "total" \in DOMAIN sections[section_id]
         THEN sections[section_id]["total"]
         ELSE sections[section_id]["int"]
    ELSE 0

\* filtered_results_total over the first n filtered sections (lines 1090-1100)
RECURSIVE filtered_results_total(_, _, _, _)
filtered_results_total(filtered, expected, sections, n) ==
    IF n = 0 THEN 0
    ELSE filtered_results_total(filtered, expected, sections, n - 1)
            + (IF InSections(expected, filtered[n])
               THEN filtered_score(sections, filtered[n])
               ELSE 0)

\* filtered_expected over the first n filtered sections (lines 1091-1109)
RECURSIVE filtered_expected(_, _, _)
filtered_expected(filtered, expected, n) ==
    IF n = 0 THEN 0
    ELSE filtered_expected(filtered, expected, n - 1)
            + (IF InSections(expected, filtered[n])
               THEN section_points(SectionConfig(expected, filtered[n]))
               ELSE 0)

\* Mutant: the fix is applied to the result of every notebook.
section_2_fix_every_notebook(asset_id, res) ==
    IF K2 \in DOMAIN res["sections"]
    THEN IF is_dict(res["sections"][K2])
         THEN [res EXCEPT !["sections"][K2] = Put(Put(@, "raw", 2), "total", 2)]
         ELSE [res EXCEPT !["sections"][K2] =
                  [code |-> 0, raw |-> 2, total |-> 2,
                   expected_code |-> 0, expected_raw |-> 2, expected_total |-> 2]]
    ELSE res

\* "Special fix for section 2 raw cells" (lines 1061-1078)
section_2_fix(asset_id, res) ==
    IF asset_id = "HANDS-ON_ACTIVITY_3" /\ K2 \in DOMAIN res["sections"]
    THEN IF is_dict(res["sections"][K2])
         THEN [res EXCEPT !["sections"][K2] = Put(Put(@, "raw", 2), "total", 2)]
         ELSE [res EXCEPT !["sections"][K2] =
                  [code |-> 0, raw |-> 2, total |-> 2,
                   expected_code |-> 0, expected_raw |-> 2, expected_total |-> 2]]
    ELSE res

\* score / expected * 100 if expected > 0 else 0, kept as an exact quotient
\* (lines 1115, 1154, 1351); the rounding to one decimal is left out.
percentage(score, expected) ==
    IF expected > 0 THEN [num |-> score * 100, den |-> expected] ELSE [num |-> 0, den |-> 1]

\* The entry of activity_results for a graded notebook (lines 1080-1117).
graded_activity(asset_id, expected, res, filtered) ==
    [notebook |-> "notebook.ipynb",
     score |-> filtered_results_total(filtered, expected, res["sections"], Len(filtered)),
     expected |-> filtered_expected(filtered, expected, Len(filtered)),
     percentage |->
        percentage(filtered_results_total(filtered, expected, res["sections"], Len(filtered)),
                   filtered_expected(filtered, expected, Len(filtered))),
     results |-> res]

\* The entry of activity_results for a notebook that was not found (lines 1134-1140).
missing_activity(expected) ==
    [notebook |-> "NOT FOUND",
     score |-> 0,
     expected |-> total_expected_for_notebook(expected),
     percentage |-> percentage(0, 0),
     missing |-> TRUE]

Numerals == <<"0", "1", "2", "3", "4", "5", "6", "7", "8", "9">>

\* ord(ch) for the characters of a section key.
ord(ch) ==
    IF ch = "." THEN 46
    ELSE IF ch \in Digits THEN 47 + (CHOOSE n \in 1..10 : Numerals[n] = ch)
    ELSE 96 + (CHOOSE n \in 1..26 : LowerAlphabet[n] = ch)

\* a < b for two Python strings
RECURSIVE str_less(_, _)
str_less(a, b) ==
    IF b = <<>> THEN FALSE
    ELSE IF a = <<>> THEN TRUE
    ELSE IF Head(a) # Head(b) THEN ord(Head(a)) < ord(Head(b))
    ELSE str_less(Tail(a), Tail(b))

\* sorted(keys)
RECURSIVE sorted(_)
sorted(keys) ==
    IF keys = {} THEN <<>>
    ELSE LET least == CHOOSE k \in keys : \A other \in keys \ {k} : str_less(k, other)
         IN  <<least>> \o sorted(keys \ {least})

\* The line of the summary for one activity (lines 1158-1163).
activity_line(act_id, act) ==
    IF Get(act, "missing", FALSE)
    THEN [line |-> "activity", id |-> act_id, missing |-> TRUE, score |-> 0,
          expected |-> act["expected"]]
    ELSE [line |-> "activity", id |-> act_id, missing |-> FALSE, score |-> act["score"],
          expected |-> act["expected"], percentage |-> act["percentage"]]

\* sum(act[field] for act in activity_results.values())  (lines 1152-1153)
sum_field(results_by_id, field) ==
    SumOver(DOMAIN results_by_id, [a \in DOMAIN results_by_id |-> results_by_id[a][field]])

\* The "Notebook Activities" line (lines 1151-1156).
notebook_activities_line(notebook_total, notebook_possible) ==
    [line |-> "Notebook Activities",
     total |-> notebook_total,
     possible |-> notebook_possible,
     percent |-> percentage(notebook_total, notebook_possible)]

\* The lines of the first n notebook assets in the summary (lines 1157-1163).
RECURSIVE activity_lines(_, _)
activity_lines(results_by_id, n) ==
    IF n = 0 THEN <<>>
    ELSE activity_lines(results_by_id, n - 1)
            \o (IF NotebookAssets[n] \in DOMAIN results_by_id
                THEN <<activity_line(NotebookAssets[n], results_by_id[NotebookAssets[n]])>>
                ELSE <<>>)

\* The "Screenshots" line and the lines of the screenshots (lines 1165-1171).
screenshot_lines(done) ==
    <<[line |-> "Screenshots", completed |-> Len(done), total |-> Len(ScreenshotAssets)]>>
        \o [j \in 1..Len(SortedScreenshots) |->
              [line |-> "screenshot",
               id |-> ScreenshotAssets[SortedScreenshots[j]]["id"],
               completed |->
                  \E i \in 1..Len(done) : done[i] = ScreenshotAssets[SortedScreenshots[j]]["id"],
               required_note |->
                  /\ ScreenshotAssets[SortedScreenshots[j]]["required"]
                  /\ ~\E i \in 1..Len(done) :
                        done[i] = ScreenshotAssets[SortedScreenshots[j]]["id"]]]

\* The line of the section table for one section of the result (lines 1233-1257).
section_line(expected, sections, section) ==
    IF is_dict(sections[section])
    THEN [line |-> "section", section |-> section,
          score |-> sections[section]["total"],
          possible |-> sections[section]["expected_total"]]
    ELSE [line |-> "section", section |-> section,
          score |-> sections[section]["int"],
          possible |-> IF is_dict(SectionConfig(expected, section))
                       THEN Get(SectionConfig(expected, section), "code_cells", 0)
                       ELSE SectionConfig(expected, section)["int"]]

\* section_range (lines 1214-1220)
section_range(asset_id) ==
    IF asset_id = "HANDS-ON_ACTIVITY_1" THEN "sections 0-2c only"
    ELSE IF asset_id = "HANDS-ON_ACTIVITY_2" THEN "sections 3-8b only"
    ELSE "all sections"

\* The detail lines of one notebook, with the keys of its section table in
\* display order (lines 1186-1257).
detail_lines(asset_id, act, keys) ==
    IF Get(act, "missing", FALSE)
    THEN <<[line |-> "Checking", what |-> asset_id],
           [line |-> "Notebook not found", expected |-> act["expected"]]>>
    ELSE <<[line |-> "Checking", what |-> act["notebook"]],
           [line |-> "Total completed", score |-> act["score"],
            expected |-> act["expected"], percentage |-> act["percentage"],
            section_range |-> section_range(asset_id)],
           [line |-> "Section completion"]>>
         \o [j \in 1..Len(keys) |->
                section_line(Expected[asset_id], act["results"]["sections"], keys[j])]

\* The detail lines of the first n notebook assets (lines 1181-1257).
RECURSIVE details(_, _)
details(results_by_id, n) ==
    IF n = 0 THEN <<>>
    ELSE details(results_by_id, n - 1)
            \o (IF NotebookAssets[n] \in DOMAIN results_by_id
                THEN detail_lines(NotebookAssets[n], results_by_id[NotebookAssets[n]],
                                  IF Get(results_by_id[NotebookAssets[n]], "missing", FALSE)
                                  THEN <<>>
                                  ELSE sorted(DOMAIN results_by_id[NotebookAssets[n]]
                                                        ["results"]["sections"]))
                ELSE <<>>)

\* student_summaries[student_id]["activities"] (lines 1206-1212): the notebooks
\* that were found.
summary_activities(results_by_id) ==
    [a \in {b \in DOMAIN results_by_id : ~Get(results_by_id[b], "missing", FALSE)} |->
        [notebook |-> results_by_id[a]["notebook"],
         score |-> results_by_id[a]["score"],
         total |-> results_by_id[a]["expected"],
         percentage |-> results_by_id[a]["percentage"]]]

\* student_summaries[student_id]["screenshots"] (lines 1174-1179)
summary_screenshots(done, missing) ==
    [completed |-> done,
     missing |-> missing,
     total_completed |-> Len(done),
     required_missing |->
        Cardinality({j \in 1..Len(ScreenshotAssets) :
                        /\ ScreenshotAssets[j]["required"]
                        /\ \E i \in 1..Len(missing) :
                              missing[i] = ScreenshotAssets[j]["id"]})]

\* The cell of the summary table for one activity (lines 1339-1348).
csv_activity(activities, act_id) ==
    IF act_id \in DOMAIN activities
    THEN [score |-> activities[act_id]["score"],
          total |-> activities[act_id]["total"],
          percentage |-> activities[act_id]["percentage"]]
    ELSE [text |-> "N/A"]

\* The "Notebook Total" cell (lines 1350-1352).
csv_notebook_total(student_total, student_possible) ==
    IF student_possible > 0
    THEN [score |-> student_total,
          total |-> student_possible,
          percentage |-> percentage(student_total, student_possible)]
    ELSE [text |-> "N/A"]

\* The student's row of the summary table (lines 1329-1366).
csv_row(info) ==
    [activities |-> [j \in 1..Len(NotebookAssets) |->
                        csv_activity(info["activities"], NotebookAssets[j])],
     notebook_total |-> csv_notebook_total(sum_field(info["activities"], "score"),
                                           sum_field(info["activities"], "total")),
     screenshots |-> [completed |-> info["screenshots"]["total_completed"],
                      total |-> Len(ScreenshotAssets)]]

(***************************************************************************)
(* One student directory with any of the three notebooks missing or found  *)
(* with a content drawn from ReportNotebooks                               *)
(***************************************************************************)

\* The notebook files a student directory may hold: a corrupt file, and
\* notebooks with a code and a raw cell under "# 0. T", with a code cell under
\* "### 4a. T" and with a raw cell under "## 2. T".
ReportNotebooks ==
    {Unparsable,
     ParsedNotebook(<<Markdown(Heading(1, <<"0">>)), CodeDone, RawDone>>),
     ParsedNotebook(<<Markdown(Heading(3, <<"4", "a">>)), CodeDone>>),
     ParsedNotebook(<<Markdown(Heading(2, <<"2">>)), RawDone>>),
     ParsedNotebook(<<Markdown(Heading(2, <<"2">>)), CodeDone>>)}

InitReport ==
    /\ pc = "student"
    /\ notebook_file = Unparsable
    /\ expected_config = Expected["HANDS-ON_ACTIVITY_1"]
    /\ InitLocals

\* The start of the pass over a student directory and the check for
\* screenshot submissions (lines 1001-1044); the directories that hold files
\* are the environment's choice.
main_screenshots ==
    /\ pc = "student"
    /\ \E with_files \in SUBSET {ScreenshotAssets[j]["id"] : j \in 1..Len(ScreenshotAssets)} :
          /\ screenshots_completed' =
                SelectSeq([j \in 1..Len(ScreenshotAssets) |-> ScreenshotAssets[j]["id"]],
                          LAMBDA id : id \in with_files)
          /\ screenshots_missing' =
                SelectSeq([j \in 1..Len(ScreenshotAssets) |-> ScreenshotAssets[j]["id"]],
                          LAMBDA id : id \notin with_files)
    /\ student_summaries' = [activities |-> EmptyDict, screenshots |-> EmptyDict]
    /\ student_output' = <<[line |-> "student"]>>
    /\ activity_results' = EmptyDict
    /\ asset_pos' = 1
    /\ pc' = "assets"
    /\ UNCHANGED <<hcVars, inputVars, idx, current_section, enhancedVars, specialVars, results,
                   graded, csv_rows>>

\* The next notebook asset when find_notebook_in_activity_dir returns None
\* (lines 1047-1056, 1121-1142).
main_asset_missing ==
    /\ pc = "assets"
    /\ asset_pos <= Len(NotebookAssets)
    /\ activity_results' =
            Put(activity_results, NotebookAssets[asset_pos],
                missing_activity(Expected[NotebookAssets[asset_pos]]))
    /\ asset_pos' = asset_pos + 1
    /\ UNCHANGED <<pc, hcVars, inputVars, idx, current_section, enhancedVars, specialVars,
                   results, graded, screenshots_completed, screenshots_missing,
                   student_output, student_summaries, csv_rows>>

\* The next notebook asset when a notebook is found: the call of
\* grade_notebook (lines 1047-1058).
main_asset_found ==
    /\ pc = "assets"
    /\ asset_pos <= Len(NotebookAssets)
    /\ notebook_file' \in ReportNotebooks
    /\ expected_config' = Expected[NotebookAssets[asset_pos]]
    /\ pc' = "grade_notebook"
    /\ UNCHANGED <<hcVars, idx, current_section, enhancedVars, specialVars, results, graded,
                   reportVars>>

\* The result of grade_notebook becomes the activity's entry (lines 1059-1120).
main_activity ==
    /\ pc = "returned"
    /\ asset_pos <= Len(NotebookAssets)
    /\ \E fixed \in {section_2_fix(NotebookAssets[asset_pos], results)} :
          /\ results' = fixed
          /\ activity_results' =
                Put(activity_results, NotebookAssets[asset_pos],
                    graded_activity(NotebookAssets[asset_pos], expected_config, fixed,
                                    filtered_sections(NotebookAssets[asset_pos],
                                                      expected_config)))
    /\ asset_pos' = asset_pos + 1
    /\ pc' = "assets"
    /\ UNCHANGED <<hcVars, inputVars, idx, current_section, enhancedVars, specialVars, graded,
                   screenshots_completed, screenshots_missing, student_output,
                   student_summaries, csv_rows>>

\* The student's summary and the details of each notebook (lines 1144-1295).
main_summary ==
    /\ pc = "assets"
    /\ asset_pos = Len(NotebookAssets) + 1
    /\ student_output' =
            student_output
                \o <<[line |-> "Summary"],
                     notebook_activities_line(sum_field(activity_results, "score"),
                                              sum_field(activity_results, "expected"))>>
                \o activity_lines(activity_results, Len(NotebookAssets))
                \o screenshot_lines(screenshots_completed)
                \o details(activity_results, Len(NotebookAssets))
    /\ student_summaries' =
            [activities |-> summary_activities(activity_results),
             screenshots |-> summary_screenshots(screenshots_completed, screenshots_missing)]
    /\ pc' = "table"
    /\ UNCHANGED <<hcVars, inputVars, idx, current_section, enhancedVars, specialVars, results,
                   graded, asset_pos, screenshots_completed, screenshots_missing,
                   activity_results, csv_rows>>

\* The student's row of the summary table (lines 1304-1371).
main_csv ==
    /\ pc = "table"
    /\ csv_rows' = Append(csv_rows, csv_row(student_summaries))
    /\ pc' = "done"
    /\ UNCHANGED <<hcVars, inputVars, idx, current_section, enhancedVars, specialVars, results,
                   graded, asset_pos, screenshots_completed, screenshots_missing,
                   activity_results, student_output, student_summaries>>

NextReport ==
    \/ main_screenshots
    \/ main_asset_missing
    \/ main_asset_found
    \/ main_activity
    \/ main_summary
    \/ main_csv
    \/ grade_notebook
    \/ enhanced_cell
    \/ enhanced_points

SpecReport == InitReport /\ [][NextReport]_vars

\* The activities whose notebook was not found.
MissingActivities ==
    {a \in DOMAIN activity_results : Get(activity_results[a], "missing", FALSE)}

\* The "Notebook Activities" line of the student's text summary.
SummaryLine ==
    CHOOSE l \in {student_output[j] : j \in 1..Len(student_output)} :
        l["line"] = "Notebook Activities"

\* C11 (as stated): a missing notebook is recorded with zero earned and the
\* points of its rubric as denominator, and that denominator is part of the
\* student's notebook total both in the text summary and in the "Notebook
\* Total" column of the summary table.
C11_AsStated ==
    (pc = "done" /\ MissingActivities # {})
    => /\ \A a \in MissingActivities :
            /\ activity_results[a]["score"] = 0
            /\ activity_results[a]["expected"] = total_expected_for_notebook(Expected[a])
       /\ SummaryLine["possible"] = sum_field(activity_results, "expected")
       /\ "total" \in DOMAIN csv_rows[1]["notebook_total"]
       /\ csv_rows[1]["notebook_total"]["total"] = sum_field(activity_results, "expected")

\* The asset whose graded result main_activity is about to store.
GradedAsset == NotebookAssets[asset_pos]

\* C26: the override main applies to a graded HANDS-ON_ACTIVITY_3 result
\* leaves section "2." with raw = expected_raw = 2 and total = 2 whatever the
\* scan detected, so that total = code + raw and total <= expected_total hold
\* for it; the other sections of the result, the results of the other
\* activities and the entries already stored are unchanged.
C26_Override ==
    [][main_activity
       => /\ DOMAIN results'["sections"] = DOMAIN results["sections"]
          /\ \A key \in DOMAIN results["sections"] \ {K2} :
                 results'["sections"][key] = results["sections"][key]
          /\ (GradedAsset = "HANDS-ON_ACTIVITY_3" /\ K2 \in DOMAIN results["sections"])
                => \E r \in {results'["sections"][K2]} :
                       /\ r["raw"] = 2
                       /\ r["expected_raw"] = 2
                       /\ r["total"] = 2
                       /\ r["total"] = r["code"] + r["raw"]
                       /\ r["total"] <= r["expected_total"]
          /\ GradedAsset # "HANDS-ON_ACTIVITY_3" => results' = results
          /\ \A a \in DOMAIN activity_results \ {GradedAsset} :
                 activity_results'[a] = activity_results[a]]_vars

\* HANDS-ON_ACTIVITY_3 was graded from a notebook without a section-2 header
\* and its stored result gives section "2." two of two raw units.
C26_Witness ==
    /\ pc = "assets"
    /\ asset_pos = 4
    /\ notebook_file = ParsedNotebook(<<Markdown(Heading(1, <<"0">>)), CodeDone, RawDone>>)
    /\ "results" \in DOMAIN activity_results["HANDS-ON_ACTIVITY_3"]
    /\ activity_results["HANDS-ON_ACTIVITY_3"]["results"]["sections"][K2]["raw"] = 2
    /\ activity_results["HANDS-ON_ACTIVITY_3"]["results"]["sections"][K2]["total"] = 2

\* The two activities graded from the one processing notebook rubric.
SharedRubricActivities == {"HANDS-ON_ACTIVITY_1", "HANDS-ON_ACTIVITY_2"}

\* The points of the rubric sections of the activity's own range.
OwnRangePoints(a) ==
    SumOver({key \in SectionKeys(Expected[a]) :
                \E j \in 1..Len(activity_sections[a]) : activity_sections[a][j] = key},
            [key \in SectionKeys(Expected[a]) |->
                section_points(SectionConfig(Expected[a], key))])

\* The score of the result's sections that lie in the activity's own range.
OwnRangeScore(a, sections) ==
    SumOver({key \in DOMAIN sections :
                \E j \in 1..Len(activity_sections[a]) : activity_sections[a][j] = key},
            [key \in DOMAIN sections |-> sections[key]["total"]])

\* The score of a stored activity counts the sections of its own range only.
OwnRangeOnly ==
    \A a \in DOMAIN activity_results \cap SharedRubricActivities :
        "results" \in DOMAIN activity_results[a]
        => /\ activity_results[a]["score"] =
                  OwnRangeScore(a, activity_results[a]["results"]["sections"])
           /\ activity_results[a]["expected"] = OwnRangePoints(a)

\* C27 (as stated): for HANDS-ON_ACTIVITY_1 and HANDS-ON_ACTIVITY_2 only the
\* sections of the activity's own range count toward its score and its
\* denominator, and the denominator is the same whether the notebook was found
\* and graded or was missing.
C27_AsStated ==
    /\ OwnRangeOnly
    /\ \A a \in DOMAIN activity_results \cap SharedRubricActivities :
           activity_results[a]["expected"] = OwnRangePoints(a)

\* The rubric keys main counts for the activity (line 1087).
CountedKeys(a) ==
    {key \in SectionKeys(Expected[a]) :
        \E j \in 1..Len(filtered_sections(a, Expected[a])) :
            filtered_sections(a, Expected[a])[j] = key}

\* C30: for every notebook that was found, whatever grade_notebook returned
\* (an error result included) and after the section-2 override, every counted
\* section's total is at most the section's points, so the activity's score
\* never exceeds its expected denominator and its percentage never exceeds 100.
C30_ScoreBounded ==
    \A a \in DOMAIN activity_results :
        "results" \in DOMAIN activity_results[a]
        => /\ \A key \in CountedKeys(a) \cap DOMAIN activity_results[a]["results"]["sections"] :
                  activity_results[a]["results"]["sections"][key]["total"]
                      <= section_points(SectionConfig(Expected[a], key))
           /\ activity_results[a]["score"] <= activity_results[a]["expected"]
           /\ activity_results[a]["percentage"]["num"]
                  <= 100 * activity_results[a]["percentage"]["den"]

\* All three notebooks were found: the first could not be parsed and scored
\* 0 of 40, and HANDS-ON_ACTIVITY_3 scored the 2 points of the override on a
\* notebook with one raw cell under section 2.
C30_Witness ==
    /\ pc = "assets"
    /\ asset_pos = 4
    /\ \A a \in DOMAIN activity_results : "results" \in DOMAIN activity_results[a]
    /\ "issues" \in DOMAIN activity_results["HANDS-ON_ACTIVITY_1"]["results"]
    /\ activity_results["HANDS-ON_ACTIVITY_1"]["score"] = 0
    /\ activity_results["HANDS-ON_ACTIVITY_1"]["expected"] = 40
    /\ notebook_file = ParsedNotebook(<<Markdown(Heading(2, <<"2">>)), RawDone>>)
    /\ activity_results["HANDS-ON_ACTIVITY_3"]["score"] = 2
    /\ activity_results["HANDS-ON_ACTIVITY_3"]["expected"] = 127

====
